---- MODULE Spec2Model ----
(***************************************************************************)
(* Verification model of the finance-rag-llm repository: the FAISS-backed  *)
(* vector database (src/vector_db.py), the RAG engine operations that      *)
(* drive it (src/rag_engine.py) and the multiple-choice answer extractors  *)
(* (src/main.py, src/main_optimized.py, src/fix/fix_extract_choice_answer).*)
(* and the two document splitters (src/vector_db.py and                    *)
(* src/backups/rag_engine_backup.py).                                      *)
(*                                                                         *)
(* Text is a sequence of one-character tokens.  Chinese characters are     *)
(* written as ASCII token names (listed where they are introduced).        *)
(***************************************************************************)
EXTENDS Integers, Sequences, FiniteSets, TLC

VARIABLES
    index,                \* VectorDatabase.index: None or a FAISS index (its rows)
    document_store,       \* VectorDatabase.document_store: ordered dict chunk_id -> chunk
    vector_metadata,      \* VectorDatabase.vector_metadata
    is_loaded,            \* VectorDatabase.is_loaded
    faiss_index_file,     \* the file at faiss_index_path
    metadata_file,        \* the file at metadata_path
    document_store_file,  \* the file at document_store_path
    last,                 \* outcome of the last operation (what its caller observes)
    completed,            \* history: a build or a load has returned True on this
                          \* object since it was constructed or last cleared
    answer_text,          \* the model output handed to the answer extractors
    extracted,            \* what the extractors returned for answer_text
    split_content,        \* the document text handed to the splitters
    split_chunks,         \* what a splitter returned for split_content
    run                   \* a run of run_test and the two checkpoint files

dbvars == <<index, document_store, vector_metadata, is_loaded,
            faiss_index_file, metadata_file, document_store_file, last, completed>>
splitvars == <<split_content, split_chunks>>
exvars == <<answer_text, extracted, split_content, split_chunks, run>>
vars == <<index, document_store, vector_metadata, is_loaded,
          faiss_index_file, metadata_file, document_store_file, last, completed,
          answer_text, extracted, split_content, split_chunks, run>>

-----------------------------------------------------------------------------
(* Bounds of the model *)

\* most documents handed to one build
MaxDocs == 1
\* longest plain text handed to the splitters
MaxContent == 5
\* largest chunk_size the splitters are configured with
MaxChunkSize == 7
\* largest min_chunk_length the splitter of DocumentProcessor is configured with
MaxMinChunk == 2
\* largest chunk_overlap the loop of VectorDatabase._split_document is run with
MaxOverlap == 3
\* largest top_k asked of a direct search
MaxK == 2
RandomPeriod == 2
\* statements of per-option analysis before the conclusion of a model output
MaxAnalysis == 1
\* most documents in a batch of the document directory
MaxBatch == 2
MaxQuestions == 3
MaxBatchSize == 2
MaxInterrupts == 2
\* CHUNK_SIZE and CHUNK_OVERLAP of the configuration, scaled down to the
\* length of the model's documents (config.py sets 1000 and 200)
CHUNK_SIZE == 3
CHUNK_OVERLAP == 1

\* Config.TOP_K
TOP_K == 10

-----------------------------------------------------------------------------
(* Generic helpers *)

Max2(a, b) == IF a >= b THEN a ELSE b
Min2(a, b) == IF a <= b THEN a ELSE b

\* Python slice s[i:j] with 0 <= i, 0-based, j clipped to len(s)
Slice(s, i, j) ==
    LET e == Min2(j, Len(s))
    IN IF i >= e THEN <<>> ELSE SubSeq(s, i + 1, e)

\* characters str.strip() and \s treat as whitespace: space, newline
Whitespace == {"sp", "nl"}

RECURSIVE LStrip(_)
LStrip(s) ==
    IF s # <<>> /\ Head(s) \in Whitespace THEN LStrip(Tail(s)) ELSE s

RECURSIVE RStrip(_)
RStrip(s) ==
    IF s # <<>> /\ s[Len(s)] \in Whitespace
    THEN RStrip(SubSeq(s, 1, Len(s) - 1)) ELSE s

\* str.strip()
Strip(s) == RStrip(LStrip(s))

-----------------------------------------------------------------------------
(* VectorDatabase._split_document, src/vector_db.py *)

\* the separators tried in order: '\n\n', '\n', '。', '！', '？', ';', '.'
SplitSeparators ==
    << <<"nl", "nl">>, <<"nl">>, <<"ju">>, <<"tan">>, <<"wen">>, <<"semi">>, <<"dot">> >>

\* content.rfind(sep, start, end): highest 0-based position of sep inside
\* content[start:end], -1 when there is none
RFind(content, sep, start, end) ==
    LET e == Min2(end, Len(content))
        hits == {i \in start..(e - Len(sep)) :
                    SubSeq(content, i + 1, i + Len(sep)) = sep}
    IN IF hits = {} THEN -1 ELSE CHOOSE i \in hits : \A j \in hits : j <= i

\* the for-loop over separators: the first separator found after start moves end
RECURSIVE BoundaryEnd(_, _, _, _)
BoundaryEnd(content, start, end, k) ==
    IF k > Len(SplitSeparators) THEN end
    ELSE LET sep == SplitSeparators[k]
             sep_pos == RFind(content, sep, start, end)
         IN IF sep_pos > start THEN sep_pos + Len(sep)
            ELSE BoundaryEnd(content, start, end, k + 1)

\* end of the chunk that starts at start: start + chunk_size, moved back to
\* a separator when the text goes on behind it
ChunkEnd(content, chunk_size, start) ==
    IF start + chunk_size < Len(content)
    THEN BoundaryEnd(content, start, start + chunk_size, 1)
    ELSE start + chunk_size

\* variant: start = end - chunk_overlap
NextStartNoProgress(start, end, chunk_overlap) == end - chunk_overlap

\* start = max(start + 1, end - chunk_overlap)
NextStart(start, end, chunk_overlap) == Max2(start + 1, end - chunk_overlap)

\* chunks after the chunk content[start:end] is stripped and, unless blank,
\* appended
AppendChunk(chunks, content, start, end) ==
    IF Strip(Slice(content, start, end)) # <<>>
    THEN Append(chunks, Strip(Slice(content, start, end)))
    ELSE chunks

\* the while-loop of _split_document
RECURSIVE SplitLoop(_, _, _, _, _)
SplitLoop(content, chunk_size, chunk_overlap, start, chunks) ==
    IF start >= Len(content) THEN chunks
    ELSE SplitLoop(content, chunk_size, chunk_overlap,
                   NextStart(start, ChunkEnd(content, chunk_size, start), chunk_overlap),
                   AppendChunk(chunks, content, start, ChunkEnd(content, chunk_size, start)))

SplitDocument(content, chunk_size, chunk_overlap) ==
    IF Len(content) <= chunk_size THEN <<content>>
    ELSE SplitLoop(content, chunk_size, chunk_overlap, 0, <<>>)

-----------------------------------------------------------------------------
(* Embedding and similarity *)

CountOf(s, c) == Cardinality({i \in 1..Len(s) : s[i] = c})

\* the embedding model: a text to a raw vector (here of dimension 2)
EmbedRaw(text) == [x |-> CountOf(text, "x"), y |-> CountOf(text, "y")]

\* _normalize_vectors: the unit vector raw/|raw| is kept exactly as the
\* raw direction with its squared norm; a zero norm is replaced by 1
NormalizeVectors(v) ==
    LET n2 == v.x * v.x + v.y * v.y
    IN [x |-> v.x, y |-> v.y, n2 |-> IF n2 = 0 THEN 1 ELSE n2]

\* encode_texts on a list of texts
EncodeTexts(texts) == [i \in 1..Len(texts) |-> NormalizeVectors(EmbedRaw(texts[i]))]

\* np.random.random: the vectors a random draw can return
RandomVectors == { [x |-> 1, y |-> 0], [x |-> 0, y |-> 1], [x |-> 1, y |-> 1] }

\* the draws of one call, row i of the call takes draw i modulo RandomPeriod
RandomRows == [1..RandomPeriod -> RandomVectors]

\* SimpleEmbedding.encode: the model's vectors when the model is loaded and
\* its call succeeds; random vectors, returned as ordinary vectors, when the
\* model is None (load_model failed) or the call raises
SimpleEmbeddingEncode(fault, texts) ==
    IF fault.at \in {"model_none", "encode_raises"}
    THEN [i \in 1..Len(texts) |-> fault.random[((i - 1) % RandomPeriod) + 1]]
    ELSE [i \in 1..Len(texts) |-> EmbedRaw(texts[i])]

\* encode_texts of a database whose embedding_model is a SimpleEmbedding
EncodeChunks(fault, texts) ==
    [i \in 1..Len(texts) |-> NormalizeVectors(SimpleEmbeddingEncode(fault, texts)[i])]

\* inner product of two unit vectors q/|q| and v/|v| is Dot/sqrt(q.n2*v.n2)
Dot(q, v) == q.x * v.x + q.y * v.y

\* row a scores strictly higher than row b for query q (all components >= 0,
\* so comparing squares compares the inner products)
ScoresHigher(q, a, b) == Dot(q, a) * Dot(q, a) * b.n2 > Dot(q, b) * Dot(q, b) * a.n2

-----------------------------------------------------------------------------
(* State of the database and of its three files *)

NoIndex == [st |-> "none", rows |-> <<>>]
\* _create_faiss_index: a fresh, empty index
CreateFaissIndex == [st |-> "index", rows |-> <<>>]

EmptyMetadata == [present |-> FALSE, total_vectors |-> 0, document_count |-> 0]

Missing == [st |-> "missing", val |-> <<>>]
Corrupt == [st |-> "corrupt", val |-> <<>>]
FileOf(v) == [st |-> "ok", val |-> v]

\* the database object together with the files it owns
World == [index |-> index, document_store |-> document_store,
          vector_metadata |-> vector_metadata, is_loaded |-> is_loaded,
          faiss_index_file |-> faiss_index_file, metadata_file |-> metadata_file,
          document_store_file |-> document_store_file]

\* VectorDatabase.__init__: a new object over whatever files exist
NewObject(w) == [w EXCEPT !.index = NoIndex, !.document_store = <<>>,
                          !.vector_metadata = EmptyMetadata, !.is_loaded = FALSE]

SetWorld(w) ==
    /\ index' = w.index
    /\ document_store' = w.document_store
    /\ vector_metadata' = w.vector_metadata
    /\ is_loaded' = w.is_loaded
    /\ faiss_index_file' = w.faiss_index_file
    /\ metadata_file' = w.metadata_file
    /\ document_store_file' = w.document_store_file

\* variant: only the index file is looked for
CanLoadExistingIndexOnly(w) == w.faiss_index_file.st # "missing"

\* can_load_existing
CanLoadExisting(w) ==
    /\ w.faiss_index_file.st # "missing"
    /\ w.metadata_file.st # "missing"
    /\ w.document_store_file.st # "missing"

-----------------------------------------------------------------------------
(* save_to_disk *)

\* A fault is where an operation fails (at) and, for a failing file write,
\* whether the file was already opened and partly written (torn) or could
\* not be opened and is kept as it was.
SaveFaults == {"save_index", "save_meta", "save_store"}

AfterFailedWrite(file, fault) == IF fault.torn THEN Corrupt ELSE file

\* returns the world and save_to_disk's return value
SaveToDisk(w, fault) ==
    IF fault.at = "save_index"
    THEN [w |-> [w EXCEPT !.faiss_index_file = AfterFailedWrite(@, fault)], ret |-> FALSE]
    ELSE LET w1 == [w EXCEPT !.faiss_index_file = FileOf(w.index.rows)]
         IN IF fault.at = "save_meta"
            THEN [w |-> [w1 EXCEPT !.metadata_file = AfterFailedWrite(@, fault)], ret |-> FALSE]
            ELSE LET w2 == [w1 EXCEPT !.metadata_file = FileOf(w.vector_metadata)]
                 IN IF fault.at = "save_store"
                    THEN [w |-> [w2 EXCEPT !.document_store_file = AfterFailedWrite(@, fault)],
                          ret |-> FALSE]
                    ELSE [w |-> [w2 EXCEPT !.document_store_file = FileOf(w.document_store)],
                          ret |-> TRUE]

-----------------------------------------------------------------------------
(* build_from_documents *)

\* the chunks of one document that are kept (chunk.strip() non-empty), with
\* their chunk_index
RECURSIVE DocChunks(_, _, _)
DocChunks(doc_idx, chunks, chunk_idx) ==
    IF chunk_idx > Len(chunks) THEN <<>>
    ELSE LET chunk == chunks[chunk_idx]
             rest == DocChunks(doc_idx, chunks, chunk_idx + 1)
         IN IF Strip(chunk) # <<>>
            THEN <<[chunk_id |-> <<doc_idx - 1, chunk_idx - 1>>, text |-> chunk]>> \o rest
            ELSE rest

\* chunk_metadata of the whole batch, in text_chunks order
RECURSIVE ChunkMetadata(_, _)
ChunkMetadata(documents, doc_idx) ==
    IF doc_idx > Len(documents) THEN <<>>
    ELSE DocChunks(doc_idx, SplitDocument(documents[doc_idx], CHUNK_SIZE, CHUNK_OVERLAP), 1)
         \o ChunkMetadata(documents, doc_idx + 1)

TextChunks(meta) == [i \in 1..Len(meta) |-> meta[i].text]

\* _should_incremental_update: len(documents) <= document_count * 1.1
ShouldIncrementalUpdate(w, documents) ==
    10 * Len(documents) <= 11 * w.vector_metadata.document_count

BuildFaults ==
    {[at |-> a, torn |-> FALSE] : a \in {"none", "split", "encode", "add"}}
    \cup {[at |-> a, torn |-> t] : a \in SaveFaults, t \in BOOLEAN}

\* The full rebuild. Returns the world, the outcome ("True" or "raise") and
\* what save_to_disk returned ("none" when it was not reached).
FullRebuild(w, documents, fault) ==
    LET meta == ChunkMetadata(documents, 1)
        text_chunks == TextChunks(meta)
    IN IF fault.at = "split" \/ fault.at = "encode" \/ text_chunks = <<>>
       THEN [w |-> w, ret |-> "raise", saved |-> "none"]
       ELSE LET vectors == EncodeChunks(fault, text_chunks)
                w1 == [w EXCEPT !.index = CreateFaissIndex]
            IN IF fault.at = "add"
               THEN [w |-> w1, ret |-> "raise", saved |-> "none"]
               ELSE LET w2 == [w1 EXCEPT
                                 !.index = [st |-> "index", rows |-> vectors],
                                 !.document_store = meta,
                                 !.vector_metadata =
                                     [present |-> TRUE,
                                      total_vectors |-> Len(vectors),
                                      document_count |-> Len(documents)]]
                        s == SaveToDisk(w2, fault)
                    IN [w |-> [s.w EXCEPT !.is_loaded = TRUE],
                        ret |-> "True",
                        saved |-> IF s.ret THEN "ok" ELSE "failed"]

\* which branch build_from_documents takes
BuildPath(w, documents, force_rebuild) ==
    IF ~force_rebuild /\ CanLoadExisting(w) /\ ShouldIncrementalUpdate(w, documents)
    THEN "incremental" ELSE "full"

\* build_from_documents: _incremental_update is a full rebuild as well
BuildFromDocuments(w, documents, force_rebuild, fault) ==
    FullRebuild(w, documents, fault)

-----------------------------------------------------------------------------
(* load_from_disk *)

\* returns the world and load_from_disk's return value
LoadFromDisk(w) ==
    IF ~CanLoadExisting(w) THEN [w |-> w, ret |-> FALSE]
    ELSE IF w.faiss_index_file.st = "corrupt" THEN [w |-> w, ret |-> FALSE]
    ELSE LET w1 == [w EXCEPT !.index = [st |-> "index", rows |-> w.faiss_index_file.val]]
         IN IF w.metadata_file.st = "corrupt" THEN [w |-> w1, ret |-> FALSE]
            ELSE LET w2 == [w1 EXCEPT !.vector_metadata = w.metadata_file.val]
                 IN IF w.document_store_file.st = "corrupt" THEN [w |-> w2, ret |-> FALSE]
                    ELSE [w |-> [w2 EXCEPT !.document_store = w.document_store_file.val,
                                           !.is_loaded = TRUE],
                          ret |-> TRUE]

-----------------------------------------------------------------------------
(* clear_database *)

\* variant: the memory is reset but the files are kept
ClearDatabaseMemoryOnly(w) ==
    [w EXCEPT !.index = NoIndex, !.document_store = <<>>,
              !.vector_metadata = EmptyMetadata, !.is_loaded = FALSE]

\* clear_database
ClearDatabase(w) ==
    [w EXCEPT !.faiss_index_file = Missing, !.metadata_file = Missing,
              !.document_store_file = Missing,
              !.index = NoIndex, !.document_store = <<>>,
              !.vector_metadata = EmptyMetadata, !.is_loaded = FALSE]

-----------------------------------------------------------------------------
(* search *)

\* index.search(query, top_k): the rows in descending score order, ties by
\* lower row first, at most top_k of them (FAISS pads with -1, dropped by idx >= 0)
Outranks(rows, q, a, b) ==
    \/ ScoresHigher(q, rows[a], rows[b])
    \/ (~ScoresHigher(q, rows[b], rows[a]) /\ a < b)

RankOf(rows, q, a) == 1 + Cardinality({b \in 1..Len(rows) : b # a /\ Outranks(rows, q, b, a)})

IndexSearch(rows, q, top_k) ==
    LET n == Min2(top_k, Len(rows))
    IN [r \in 1..n |-> CHOOSE a \in 1..Len(rows) : RankOf(rows, q, a) = r]

\* variant: the guard without the is_loaded test
SearchRaisesIndexOnly(w) == w.index.st = "none"

\* the guard at the top of search
SearchRaises(w) == ~w.is_loaded \/ w.index.st = "none"

\* search: "ValueError" from the guard, "IndexError" when a row has no key in
\* document_store, else the list of hits
Search(w, query_text, top_k) ==
    IF SearchRaises(w) THEN [ret |-> "ValueError", hits |-> <<>>]
    ELSE LET q == NormalizeVectors(EmbedRaw(query_text))
             found == IndexSearch(w.index.rows, q, top_k)
         IN IF \E r \in 1..Len(found) : found[r] > Len(w.document_store)
            THEN [ret |-> "IndexError", hits |-> <<>>]
            ELSE [ret |-> "ok",
                  hits |-> [r \in 1..Len(found) |->
                               [row |-> found[r],
                                chunk_id |-> w.document_store[found[r]].chunk_id,
                                text |-> w.document_store[found[r]].text]]]

-----------------------------------------------------------------------------
(* RAGEngine, src/rag_engine.py *)

\* build_index: returns the world and the outcome: "loaded", "built" or "raise"
EngineBuildIndex(w, force_rebuild, documents, fault) ==
    LET l == IF ~force_rebuild /\ CanLoadExisting(w) THEN LoadFromDisk(w)
             ELSE [w |-> w, ret |-> FALSE]
    IN IF l.ret THEN [w |-> l.w, ret |-> "loaded", saved |-> "none"]
       ELSE IF documents = <<>> THEN [w |-> l.w, ret |-> "raise", saved |-> "none"]
       ELSE LET b == BuildFromDocuments(l.w, documents, TRUE, fault)
            IN [w |-> b.w, ret |-> IF b.ret = "True" THEN "built" ELSE "raise",
                saved |-> b.saved]

\* rebuild_vector_db
EngineRebuildVectorDb(w, documents, fault) ==
    EngineBuildIndex(ClearDatabase(w), TRUE, documents, fault)

\* retrieve_documents
EngineRetrieveDocuments(w, query) ==
    IF ~w.is_loaded THEN [ret |-> "ValueError", hits |-> <<>>]
    ELSE Search(w, query, TOP_K)

-----------------------------------------------------------------------------
(* Inputs *)

\* the documents a build may be given: a short one, one that is split into
\* several chunks, and a blank one
DocPool == { <<"x", "x">>, <<"x", "ju", "y", "y">>, <<"sp">> }

RECURSIVE SeqsUpTo(_, _)
SeqsUpTo(S, n) ==
    IF n = 0 THEN {<<>>}
    ELSE LET shorter == SeqsUpTo(S, n - 1)
         IN shorter \cup {Append(s, e) : s \in shorter, e \in S}

DocLists == SeqsUpTo(DocPool, MaxDocs)

Queries == { <<"x">>, <<"y">> }

\* what the caller of the last operation observed: the operation, its
\* outcome, and what save_to_disk returned inside it ("none": not reached)
NoLast == [op |-> "init", ret |-> "none", saved |-> "none"]

-----------------------------------------------------------------------------
(* Actions of the database *)

\* one of the three files does not exist
SomeFileMissing ==
    \/ faiss_index_file.st = "missing"
    \/ metadata_file.st = "missing"
    \/ document_store_file.st = "missing"

DbInit ==
    /\ index = NoIndex
    /\ document_store = <<>>
    /\ vector_metadata = EmptyMetadata
    /\ is_loaded = FALSE
    /\ faiss_index_file = Missing
    /\ metadata_file = Missing
    /\ document_store_file = Missing
    /\ last = NoLast
    /\ completed = FALSE

\* a new VectorDatabase object is constructed (a new run of the program)
NewInstance ==
    /\ SetWorld(NewObject(World))
    /\ last' = [NoLast EXCEPT !.op = "new"]
    /\ completed' = FALSE
    /\ UNCHANGED exvars

Build ==
    \E documents \in DocLists, force_rebuild \in BOOLEAN, fault \in BuildFaults :
        \E b \in {BuildFromDocuments(World, documents, force_rebuild, fault)} :
            /\ SetWorld(b.w)
            /\ last' = [op |-> "build", ret |-> b.ret, saved |-> b.saved]
            /\ completed' = (completed \/ b.ret = "True")
            /\ UNCHANGED exvars

Load ==
    \E l \in {LoadFromDisk(World)} :
        /\ SetWorld(l.w)
        /\ last' = [NoLast EXCEPT !.op = "load", !.ret = IF l.ret THEN "True" ELSE "False"]
        /\ completed' = (completed \/ l.ret)
        /\ UNCHANGED exvars

\* clear_database; the observation keeps whether the database was loaded and
\* whether its three files existed when it was called
Clear ==
    /\ SetWorld(ClearDatabase(World))
    /\ last' = [op |-> "clear", ret |-> "none", saved |-> "none",
                was_loaded |-> is_loaded, was_persisted |-> ~SomeFileMissing]
    /\ completed' = FALSE
    /\ UNCHANGED exvars

DoSearch ==
    \E query \in Queries, top_k \in 1..MaxK :
        \E s \in {Search(World, query, top_k)} :
            /\ last' = [NoLast EXCEPT !.op = "search", !.ret = s.ret]
            /\ UNCHANGED <<index, document_store, vector_metadata, is_loaded,
                           faiss_index_file, metadata_file, document_store_file, completed>>
            /\ UNCHANGED exvars

BuildIndex ==
    \E documents \in DocLists, force_rebuild \in BOOLEAN, fault \in BuildFaults :
        \E b \in {EngineBuildIndex(World, force_rebuild, documents, fault)} :
            /\ SetWorld(b.w)
            /\ last' = [op |-> "build_index", ret |-> b.ret, saved |-> b.saved]
            /\ completed' = (completed \/ b.ret \in {"loaded", "built"})
            /\ UNCHANGED exvars

RebuildVectorDb ==
    \E documents \in DocLists, fault \in BuildFaults :
        \E b \in {EngineRebuildVectorDb(World, documents, fault)} :
            /\ SetWorld(b.w)
            /\ last' = [op |-> "rebuild", ret |-> b.ret, saved |-> b.saved]
            /\ completed' = (b.ret = "built")
            /\ UNCHANGED exvars

\* the outcomes of the embedding wrapper during one build: the model works,
\* was never loaded, or raises in its call
EmbeddingFaults ==
    {[at |-> a, torn |-> FALSE, random |-> r] :
        a \in {"none", "model_none", "encode_raises"}, r \in RandomRows}

\* build_index of an engine whose SimpleEmbedding may be unavailable
BuildIndexEmbedded ==
    \E documents \in DocLists, force_rebuild \in BOOLEAN, fault \in EmbeddingFaults :
        \E b \in {EngineBuildIndex(World, force_rebuild, documents, fault)} :
            /\ SetWorld(b.w)
            /\ last' = [op |-> "build_index", ret |-> b.ret, saved |-> b.saved]
            /\ completed' = (completed \/ b.ret \in {"loaded", "built"})
            /\ UNCHANGED exvars

\* rebuild_vector_db of the same engine
RebuildVectorDbEmbedded ==
    \E documents \in DocLists, fault \in EmbeddingFaults :
        \E b \in {EngineRebuildVectorDb(World, documents, fault)} :
            /\ SetWorld(b.w)
            /\ last' = [op |-> "rebuild", ret |-> b.ret, saved |-> b.saved]
            /\ completed' = (b.ret = "built")
            /\ UNCHANGED exvars

RetrieveDocuments ==
    \E query \in Queries :
        \E s \in {EngineRetrieveDocuments(World, query)} :
            /\ last' = [NoLast EXCEPT !.op = "retrieve", !.ret = s.ret]
            /\ UNCHANGED <<index, document_store, vector_metadata, is_loaded,
                           faiss_index_file, metadata_file, document_store_file, completed>>
            /\ UNCHANGED exvars

-----------------------------------------------------------------------------
(* Text of a model answer *)

(* One token per character.  The Chinese characters are named:             *)
(*   zheng que = 正确   da an = 答案   shi = 是   wei = 为   de = 的        *)
(*   xuan xiang = 选项  xuan ze = 选择  ying gai = 应该  bu = 不            *)
(*   yin ci = 因此  suo yi = 所以  zong shang suo shu = 综上所述            *)
(*   zong he fen xi = 综合分析  he = 和  yu = 与  yi ji = 以及              *)
(*   ji you = 既有  ye you = 也有  hai you = 还有  bao kuo = 包括           *)
(*   han gai = 涵盖  dou = 都  dui = 对  cuo wu = 错误                      *)
(*   di = 第  one two three four = 一 二 三 四  shou xian = 首先            *)
(*   zui chu = 最初  qi ci = 其次  ling wai = 另外  zai zhe = 再者          *)
(*   ci wai = 此外  zui hou = 最后  zui zhong = 最终                        *)
(*   ben ti = 本题                                                         *)
(*   zi = any other Chinese character                                      *)
(* Homophones are told apart by doubling: hehe = 合 (he = 和), jiji = 及   *)
(* (ji = 既), gaigai = 盖 (gai = 该), cici = 次 (ci = 此).                 *)
(* and the punctuation:                                                    *)
(*   fcolon = ：  colon = :  fcomma = ，  comma = ,  dun = 、  dot = .       *)
(*   ju = 。  tan = ！  wen = ？  bang = !  qm = ?  semi = ;  fsemi = ；     *)
(*   sp = space  nl = newline  hash = #                                    *)
(*   zhang = 章                                                            *)

Letters == {"A", "B", "C", "D"}
LowerLetters == {"a", "b", "c", "d"}

Hanzi == {"zheng", "que", "da", "an", "shi", "wei", "de", "xuan", "xiang", "ze",
          "ying", "gai", "bu", "yin", "ci", "suo", "yi", "zong", "shang", "shu",
          "hehe", "fen", "xi", "he", "yu", "ji", "jiji", "you", "ye", "hai", "bao",
          "kuo", "han", "gaigai", "dou", "dui", "cuo", "wu", "di", "one", "two",
          "three", "four", "shou", "xian", "zui", "chu", "qi", "cici", "ling", "wai",
          "zai", "zhe", "hou", "zhong", "ben", "ti", "zi", "zhang"}

Punctuation == {"fcolon", "colon", "fcomma", "comma", "dun", "dot", "ju", "tan",
                "wen", "bang", "qm", "semi", "fsemi", "hash"}

Sigma == Letters \cup LowerLetters \cup Hanzi \cup Punctuation \cup Whitespace

\* \w of a str pattern: letters and Chinese characters, not punctuation
WordChars == Letters \cup LowerLetters \cup Hanzi

\* "." of a pattern: any character but a newline
AnyChar == Sigma \ {"nl"}

\* [^A-D]
NotLetter == Sigma \ Letters

\* str.upper()
Upper(t) ==
    [i \in 1..Len(t) |->
        CASE t[i] = "a" -> "A" [] t[i] = "b" -> "B" [] t[i] = "c" -> "C" [] t[i] = "d" -> "D"
          [] OTHER -> t[i]]

\* str.lower()
Lower(t) ==
    [i \in 1..Len(t) |->
        CASE t[i] = "A" -> "a" [] t[i] = "B" -> "b" [] t[i] = "C" -> "c" [] t[i] = "D" -> "d"
          [] OTHER -> t[i]]

\* word in text
Contains(t, word) ==
    \E i \in 1..(Len(t) - Len(word) + 1) : SubSeq(t, i, i + Len(word) - 1) = word

\* any(word in text for word in words)
ContainsAny(t, words) == \E word \in words : Contains(t, word)

-----------------------------------------------------------------------------
(* Regular expressions: the subset of Python's re the extractors use.      *)
(* A pattern is a sequence of items; matching is leftmost, greedy and      *)
(* backtracking, as in re.                                                  *)

One(S)   == [q |-> "one", s |-> S, s2 |-> {}]
Opt(S)   == [q |-> "opt", s |-> S, s2 |-> {}]
Star(S)  == [q |-> "star", s |-> S, s2 |-> {}]
Plus(S)  == [q |-> "plus", s |-> S, s2 |-> {}]
Lazy(S)  == [q |-> "lazy", s |-> S, s2 |-> {}]
\* (?:[S1][S2])*
Pairs(S1, S2) == [q |-> "pairs", s |-> S1, s2 |-> S2]
WordBoundary == [q |-> "wb", s |-> {}, s2 |-> {}]
LineStart == [q |-> "bol", s |-> {}, s2 |-> {}]
GroupOpen == [q |-> "open", s |-> {}, s2 |-> {}]
GroupClose == [q |-> "close", s |-> {}, s2 |-> {}]

\* a literal string
Str(cs) == [i \in 1..Len(cs) |-> One({cs[i]})]
\* ( ... )
Group(items) == <<GroupOpen>> \o items \o <<GroupClose>>
\* \s*
Spaces == <<Star(Whitespace)>>
\* ([A-D])
LetterGroup == Group(<<One(Letters)>>)

\* \b at position i (before the i-th character)
AtWordBoundary(t, i) ==
    LET before == i > 1 /\ t[i - 1] \in WordChars
        after == i <= Len(t) /\ t[i] \in WordChars
    IN before # after

\* length of the longest run of characters of S starting at i
RECURSIVE RunLength(_, _, _)
RunLength(t, i, S) ==
    IF i <= Len(t) /\ t[i] \in S THEN 1 + RunLength(t, i + 1, S) ELSE 0

\* number of consecutive (S1 S2) pairs starting at i
RECURSIVE PairRun(_, _, _, _)
PairRun(t, i, S1, S2) ==
    IF i + 1 <= Len(t) /\ t[i] \in S1 /\ t[i + 1] \in S2
    THEN 1 + PairRun(t, i + 2, S1, S2) ELSE 0

NoMatch == <<>>

\* Match of items k.. of pattern p at position i of t: the positions at which
\* each of these items starts followed by the position where the match ends,
\* or NoMatch.
RECURSIVE MatchAt(_, _, _, _)
RECURSIVE MatchCounted(_, _, _, _, _, _, _)

\* the item k taken n times (each w characters wide), then the rest; on
\* failure the next count in the direction of step, until the limit is passed
MatchCounted(p, k, t, i, n, w, limstep) ==
    LET r == MatchAt(p, k + 1, t, i + n * w)
    IN IF r # NoMatch THEN <<i>> \o r
       ELSE IF n = limstep[1] THEN NoMatch
       ELSE MatchCounted(p, k, t, i, n + limstep[2], w, limstep)

MatchAt(p, k, t, i) ==
    IF k > Len(p) THEN <<i>>
    ELSE LET it == p[k]
         IN CASE it.q = "one" ->
                   IF i <= Len(t) /\ t[i] \in it.s
                   THEN LET r == MatchAt(p, k + 1, t, i + 1)
                        IN IF r = NoMatch THEN NoMatch ELSE <<i>> \o r
                   ELSE NoMatch
              [] it.q = "opt" ->
                   MatchCounted(p, k, t, i,
                                IF i <= Len(t) /\ t[i] \in it.s THEN 1 ELSE 0, 1, <<0, -1>>)
              [] it.q = "star" ->
                   MatchCounted(p, k, t, i, RunLength(t, i, it.s), 1, <<0, -1>>)
              [] it.q = "plus" ->
                   IF RunLength(t, i, it.s) = 0 THEN NoMatch
                   ELSE MatchCounted(p, k, t, i, RunLength(t, i, it.s), 1, <<1, -1>>)
              [] it.q = "lazy" ->
                   MatchCounted(p, k, t, i, 0, 1, <<RunLength(t, i, it.s), 1>>)
              [] it.q = "pairs" ->
                   MatchCounted(p, k, t, i, PairRun(t, i, it.s, it.s2), 2, <<0, -1>>)
              [] it.q = "wb" ->
                   IF AtWordBoundary(t, i)
                   THEN LET r == MatchAt(p, k + 1, t, i)
                        IN IF r = NoMatch THEN NoMatch ELSE <<i>> \o r
                   ELSE NoMatch
              [] it.q = "bol" ->
                   IF i = 1
                   THEN LET r == MatchAt(p, k + 1, t, i)
                        IN IF r = NoMatch THEN NoMatch ELSE <<i>> \o r
                   ELSE NoMatch
              [] OTHER ->
                   LET r == MatchAt(p, k + 1, t, i)
                   IN IF r = NoMatch THEN NoMatch ELSE <<i>> \o r

\* re.search from position i on: the leftmost match, or NoMatch
RECURSIVE SearchFrom(_, _, _)
SearchFrom(p, t, i) ==
    IF i > Len(t) + 1 THEN NoMatch
    ELSE LET r == MatchAt(p, 1, t, i)
         IN IF r # NoMatch THEN r ELSE SearchFrom(p, t, i + 1)

\* re.search(p, t)
ReSearch(p, t) == SearchFrom(p, t, 1)

\* the item numbers of the g-th group's parentheses
GroupItem(p, g, kind) ==
    CHOOSE k \in 1..Len(p) :
        /\ p[k].q = kind
        /\ Cardinality({j \in 1..k : p[j].q = kind}) = g

\* match.group(g) of a match m of p in t
GroupText(p, t, m, g) ==
    LET from == m[GroupItem(p, g, "open")]
        to == m[GroupItem(p, g, "close")]
    IN IF to > from THEN SubSeq(t, from, to - 1) ELSE <<>>

\* match.groups()
Groups(p, t, m) ==
    [g \in 1..Cardinality({k \in 1..Len(p) : p[k].q = "open"}) |-> GroupText(p, t, m, g)]

\* re.findall and re.finditer from position i on: group 1 of the successive
\* non-overlapping matches
RECURSIVE FindAllFrom(_, _, _)
FindAllFrom(p, t, i) ==
    LET m == SearchFrom(p, t, i)
    IN IF m = NoMatch THEN <<>>
       ELSE LET end == m[Len(m)]
                next == IF end = m[1] THEN end + 1 ELSE end
            IN <<GroupText(p, t, m, 1)>> \o FindAllFrom(p, t, next)

\* re.findall(p, t)[0] when there is a match, NoMatch otherwise
FirstGroup(p, t) ==
    LET m == ReSearch(p, t)
    IN IF m = NoMatch THEN NoMatch ELSE GroupText(p, t, m, 1)

\* re.split(r'[。！？.!?]', t)
SentenceEnds == {"ju", "tan", "wen", "dot", "bang", "qm"}

RECURSIVE SplitSentences(_, _, _)
SplitSentences(t, i, cur) ==
    IF i > Len(t) THEN <<cur>>
    ELSE IF t[i] \in SentenceEnds THEN <<cur>> \o SplitSentences(t, i + 1, <<>>)
    ELSE SplitSentences(t, i + 1, Append(cur, t[i]))

-----------------------------------------------------------------------------
(* DocumentProcessor._split_document, src/backups/rag_engine_backup.py *)

\* r'#\s*(.*?)\s*#'
TitlePattern ==
    Str(<<"hash">>) \o Spaces \o Group(<<Lazy(AnyChar)>>) \o Spaces \o Str(<<"hash">>)

\* r'##\s*第[一二三四五六七八九十百]+[章节条].*?##' (the numerals and the unit
\* that are in the alphabet) and r'###.*?###'
HeadingPatterns ==
    << Str(<<"hash", "hash">>) \o Spaces
          \o <<One({"di"}), Plus({"one", "two", "three", "four"}), One({"zhang"}),
               Lazy(AnyChar)>>
          \o Str(<<"hash", "hash">>),
       Str(<<"hash", "hash", "hash">>) \o <<Lazy(AnyChar)>>
          \o Str(<<"hash", "hash", "hash">>) >>

\* one alternative of the pattern of re.split: a heading on a line of its own
HeadingLine(a) == <<One({"nl"})>> \o HeadingPatterns[a] \o <<One({"nl"})>>

\* the leftmost match of either alternative from position i on
NextHeadingLine(content, i) ==
    LET m1 == SearchFrom(HeadingLine(1), content, i)
        m2 == SearchFrom(HeadingLine(2), content, i)
    IN IF m1 = NoMatch THEN m2
       ELSE IF m2 = NoMatch \/ m1[1] <= m2[1] THEN m1 ELSE m2

\* re.split(r'(\n##...##\n|\n###.*?###\n)', content) from position i on: the
\* text before each heading line, the heading line, ..., the text after the last
RECURSIVE SplitSections(_, _)
SplitSections(content, i) ==
    IF NextHeadingLine(content, i) = NoMatch
    THEN <<SubSeq(content, i, Len(content))>>
    ELSE <<SubSeq(content, i, NextHeadingLine(content, i)[1] - 1),
           SubSeq(content, NextHeadingLine(content, i)[1],
                  NextHeadingLine(content, i)[Len(NextHeadingLine(content, i))] - 1)>>
         \o SplitSections(content, NextHeadingLine(content, i)[Len(NextHeadingLine(content, i))])

\* section.split("\n")
RECURSIVE SplitLines(_, _, _)
SplitLines(t, i, cur) ==
    IF i > Len(t) THEN <<cur>>
    ELSE IF t[i] = "nl" THEN <<cur>> \o SplitLines(t, i + 1, <<>>)
    ELSE SplitLines(t, i + 1, Append(cur, t[i]))

\* re.split(r'([。！？])', para) taken two by two: each sentence with its
\* terminator, then what follows the last terminator (possibly empty)
RECURSIVE SplitTerminated(_, _, _)
SplitTerminated(t, i, cur) ==
    IF i > Len(t) THEN <<cur>>
    ELSE IF t[i] \in {"ju", "tan", "wen"}
         THEN <<Append(cur, t[i])>> \o SplitTerminated(t, i + 1, <<>>)
    ELSE SplitTerminated(t, i + 1, Append(cur, t[i]))

\* "\n".join(parts)
RECURSIVE JoinLines(_)
JoinLines(parts) ==
    IF parts = <<>> THEN <<>>
    ELSE IF Len(parts) = 1 THEN parts[1]
    ELSE parts[1] \o <<"nl">> \o JoinLines(Tail(parts))

\* prefix = f"# {document_title} #\n" if document_title else ""
TitlePrefix(content) ==
    IF FirstGroup(TitlePattern, content) = NoMatch THEN <<>>
    ELSE <<"hash", "sp">> \o FirstGroup(TitlePattern, content) \o <<"sp", "hash", "nl">>

\* if parts: full_chunk = prefix + "\n".join(parts); appended when it has
\* min_chunk_length characters. c holds prefix, limit (chunk_size -
\* prefix_length) and min_chunk_length
SaveChunk(chunks, parts, c) ==
    IF parts # <<>> /\ Len(c.prefix \o JoinLines(parts)) >= c.min_chunk_length
    THEN Append(chunks, c.prefix \o JoinLines(parts))
    ELSE chunks

\* temp_chunk = [part]; temp_length = len(part) after saving temp_chunk
StartTemp(s, part, c) ==
    [chunks |-> SaveChunk(s.chunks, s.temp_chunk, c),
     temp_chunk |-> <<part>>, temp_length |-> Len(part)]

\* the body of the loop over the sentences of a long paragraph
AddSentence(s, sentence, c) ==
    IF s.temp_length + Len(sentence) <= c.limit
    THEN [s EXCEPT !.temp_chunk = Append(@, sentence),
                   !.temp_length = @ + Len(sentence)]
    ELSE StartTemp(s, sentence, c)

RECURSIVE SentenceLoop(_, _, _)
SentenceLoop(s, sentences, c) ==
    IF sentences = <<>> THEN s
    ELSE SentenceLoop(AddSentence(s, Head(sentences), c), Tail(sentences), c)

\* the body of the loop over the paragraphs of a long section
AddParagraph(s, para, c) ==
    IF s.temp_length + Len(para) <= c.limit
    THEN [s EXCEPT !.temp_chunk = Append(@, para),
                   !.temp_length = @ + Len(para) + 1]
    ELSE IF Len(para) > c.limit
         THEN SentenceLoop(s, SplitTerminated(para, 1, <<>>), c)
    ELSE StartTemp(s, para, c)

RECURSIVE ParagraphLoop(_, _, _)
ParagraphLoop(s, paragraphs, c) ==
    IF paragraphs = <<>> THEN s
    ELSE ParagraphLoop(AddParagraph(s, Head(paragraphs), c), Tail(paragraphs), c)

\* a section longer than the limit: split by paragraph, then by sentence;
\* the chunks after the last temp_chunk is saved
SplitLongSection(chunks, section, c) ==
    SaveChunk(ParagraphLoop([chunks |-> chunks, temp_chunk |-> <<>>, temp_length |-> 0],
                            SplitLines(section, 1, <<>>), c).chunks,
              ParagraphLoop([chunks |-> chunks, temp_chunk |-> <<>>, temp_length |-> 0],
                            SplitLines(section, 1, <<>>), c).temp_chunk,
              c)

\* current_chunk is saved first when the section does not fit behind it
BeforeSection(t, section, c) ==
    IF t.current_length + Len(section) > c.limit /\ t.current_chunk # <<>>
    THEN [chunks |-> SaveChunk(t.chunks, t.current_chunk, c),
          current_chunk |-> <<>>, current_length |-> 0]
    ELSE t

\* the body of the loop over the sections, for a non-empty section
AddSection(t, section, c) ==
    IF Len(section) > c.limit
    THEN [BeforeSection(t, section, c) EXCEPT
             !.chunks = SplitLongSection(@, section, c)]
    ELSE [BeforeSection(t, section, c) EXCEPT
             !.current_chunk = Append(@, section),
             !.current_length = @ + Len(section) + 1]

\* section i as the loop takes it: stripped, and a heading joined to the
\* section that follows it (the i += 1 inside the for loop skips nothing)
SectionAt(sections, i) ==
    IF /\ \E a \in 1..Len(HeadingPatterns) :
             MatchAt(HeadingPatterns[a], 1, Strip(sections[i]), 1) # NoMatch
       /\ i < Len(sections)
    THEN Strip(sections[i]) \o <<"nl">> \o Strip(sections[i + 1])
    ELSE Strip(sections[i])

RECURSIVE SectionLoop(_, _, _, _)
SectionLoop(t, sections, i, c) ==
    IF i > Len(sections) THEN t
    ELSE IF Strip(sections[i]) = <<>> THEN SectionLoop(t, sections, i + 1, c)
    ELSE SectionLoop(AddSection(t, SectionAt(sections, i), c), sections, i + 1, c)

\* what the loops are given: the prefix, the room left beside it and the
\* shortest chunk kept
SplitSettings(content, chunk_size, min_chunk_length) ==
    [prefix |-> TitlePrefix(content),
     limit |-> chunk_size - Len(TitlePrefix(content)),
     min_chunk_length |-> min_chunk_length]

\* DocumentProcessor._split_document
ProcessorSplitDocument(content, chunk_size, min_chunk_length) ==
    IF Len(content) <= chunk_size
    THEN IF Len(content) >= min_chunk_length THEN <<content>> ELSE <<>>
    ELSE SaveChunk(
            SectionLoop([chunks |-> <<>>, current_chunk |-> <<>>, current_length |-> 0],
                        SplitSections(content, 1), 1,
                        SplitSettings(content, chunk_size, min_chunk_length)).chunks,
            SectionLoop([chunks |-> <<>>, current_chunk |-> <<>>, current_length |-> 0],
                        SplitSections(content, 1), 1,
                        SplitSettings(content, chunk_size, min_chunk_length)).current_chunk,
            SplitSettings(content, chunk_size, min_chunk_length))

-----------------------------------------------------------------------------
(* Helpers of the answer extractors *)

\* sorted(list) of option letters, duplicates kept
LetterRank(c) == CASE c = "A" -> 1 [] c = "B" -> 2 [] c = "C" -> 3 [] OTHER -> 4

RECURSIVE Insert(_, _)
Insert(sorted, c) ==
    IF sorted = <<>> THEN <<c>>
    ELSE IF LetterRank(c) < LetterRank(Head(sorted)) THEN <<c>> \o sorted
    ELSE <<Head(sorted)>> \o Insert(Tail(sorted), c)

RECURSIVE Sorted(_)
Sorted(list) ==
    IF list = <<>> THEN <<>> ELSE Insert(Sorted(Tail(list)), Head(list))

\* sorted(list(set(list)))
RECURSIVE SortedSet(_)
SortedSet(S) ==
    IF S = {} THEN <<>>
    ELSE LET c == CHOOSE x \in S : \A y \in S : LetterRank(x) <= LetterRank(y)
         IN <<c>> \o SortedSet(S \ {c})

Range(list) == {list[i] : i \in 1..Len(list)}

-----------------------------------------------------------------------------
(* Words of the patterns *)

ZhengQue == <<"zheng", "que">>
DaAn == <<"da", "an">>
XuanXiang == <<"xuan", "xiang">>
XuanZe == <<"xuan", "ze">>
YingGai == <<"ying", "gai">>
\* 因此, 所以, 综上所述, 综合分析
ConclusionWords ==
    << <<"yin", "ci">>, <<"suo", "yi">>, <<"zong", "shang", "suo", "shu">>,
       <<"zong", "hehe", "fen", "xi">> >>
ShiWei == {"shi", "wei"}
Commas == {"comma", "fcomma"}
Colons == {"colon", "fcolon"}

\* the isolated option letter \b([A-D])\b
IsolatedLetter == <<WordBoundary>> \o LetterGroup \o <<WordBoundary>>

\* the keyword guesses of the last resort, in the order they are tried
KeywordGuesses ==
    << [words |-> {<<"di", "one">>, <<"shou", "xian">>, <<"zui", "chu">>}, choice |-> "A"],
       [words |-> {<<"di", "two">>, <<"qi", "cici">>, <<"ling", "wai">>}, choice |-> "B"],
       [words |-> {<<"di", "three">>, <<"zai", "zhe">>, <<"ci", "wai">>}, choice |-> "C"],
       [words |-> {<<"di", "four">>, <<"zui", "hou">>, <<"zui", "zhong">>}, choice |-> "D"] >>

\* the first keyword guess, from the k-th on, that the lowered text supports
RECURSIVE KeywordFrom(_, _)
KeywordFrom(lower, k) ==
    IF k > Len(KeywordGuesses) THEN NoMatch
    ELSE IF ContainsAny(lower, KeywordGuesses[k].words) THEN <<KeywordGuesses[k].choice>>
    ELSE KeywordFrom(lower, k + 1)

\* for pattern in ps: matches = re.findall(pattern, t); the first choice found
RECURSIVE FirstPatternChoice(_, _, _)
FirstPatternChoice(ps, t, k) ==
    IF k > Len(ps) THEN NoMatch
    ELSE LET choice == Strip(FirstGroup(ps[k], t))
         IN IF Len(choice) = 1 /\ choice[1] \in Letters THEN choice
            ELSE FirstPatternChoice(ps, t, k + 1)

\* choice_counts[c] of a list of choices
CountIn(choices, c) == Cardinality({i \in 1..Len(choices) : choices[i] = c})

\* going back from the k-th choice, the first one no other outnumbers
RECURSIVE LastFrequent(_, _)
LastFrequent(choices, k) ==
    IF k = 0 THEN NoMatch
    ELSE IF \A i \in 1..Len(choices) :
                CountIn(choices, choices[i]) <= CountIn(choices, choices[k])
    THEN choices[k]
    ELSE LastFrequent(choices, k - 1)

\* the option that occurs most often among the isolated ones, the last one
\* to occur on a tie; NoMatch when no option stands isolated
FrequencyOf(upper) ==
    LET isolated_choices == FindAllFrom(IsolatedLetter, upper, 1)
    IN LastFrequent(isolated_choices, Len(isolated_choices))

-----------------------------------------------------------------------------
(* FinancialQASystem.extract_choice_answer of main.py *)

patterns ==
    << Str(ZhengQue) \o Str(DaAn) \o <<One(ShiWei \cup Colons)>> \o Spaces \o LetterGroup,
       Str(DaAn) \o <<One(ShiWei \cup Colons)>> \o Spaces \o LetterGroup,
       Str(XuanZe) \o Spaces \o LetterGroup,
       Str(YingGai) \o Str(<<"xuan">>) \o <<Opt({"ze"})>> \o Spaces \o LetterGroup,
       Str(DaAn) \o Str(YingGai) \o <<Opt(ShiWei)>> \o Spaces \o LetterGroup,
       Str(ConclusionWords[1]) \o <<Opt(Commas)>> \o Spaces \o Str(DaAn) \o <<Opt(ShiWei)>>
           \o Spaces \o LetterGroup,
       Str(ConclusionWords[2]) \o <<Opt(Commas)>> \o Spaces \o Str(DaAn) \o <<Opt(ShiWei)>>
           \o Spaces \o LetterGroup,
       Str(ConclusionWords[3]) \o <<Opt(Commas)>> \o Spaces \o Str(DaAn) \o <<Opt(ShiWei)>>
           \o Spaces \o LetterGroup,
       Str(ConclusionWords[4]) \o <<Opt(Commas)>> \o Spaces \o Str(DaAn) \o <<Opt(ShiWei)>>
           \o Spaces \o LetterGroup,
       Str(XuanXiang) \o Spaces \o LetterGroup \o Spaces \o <<Opt(ShiWei)>> \o Str(ZhengQue),
       LetterGroup \o Spaces \o Str(XuanXiang) \o <<Opt(ShiWei)>> \o Str(ZhengQue),
       LetterGroup \o Spaces \o Str(<<"shi">>) \o Str(ZhengQue) \o Str(<<"de">>),
       LetterGroup \o Spaces \o Str(ZhengQue),
       <<One({"xuan", "da"})>> \o Spaces \o LetterGroup,
       Str(DaAn) \o <<One(Colons)>> \o Spaces \o LetterGroup,
       <<LineStart>> \o LetterGroup \o <<One({"dot", "dun", "fcomma"})>>,
       IsolatedLetter \o <<Lazy(AnyChar)>> \o Str(ZhengQue),
       Str(XuanZe) \o <<Lazy(AnyChar)>> \o LetterGroup >>

\* the declaration patterns tried on the whole text
MainPatternStage(text) ==
    FirstPatternChoice(patterns, Upper(Strip(text)), 1)

\* the first 8 patterns tried on each sentence, the last sentence first
RECURSIVE MainSentenceScan(_, _)
MainSentenceScan(sentences, k) ==
    IF k = 0 THEN NoMatch
    ELSE LET choice == IF Strip(sentences[k]) = <<>> THEN NoMatch
                       ELSE FirstPatternChoice(SubSeq(patterns, 1, 8), Upper(sentences[k]), 1)
         IN IF choice # NoMatch THEN choice ELSE MainSentenceScan(sentences, k - 1)

MainSentenceStage(text) ==
    LET sentences == SplitSentences(Strip(text), 1, <<>>)
    IN MainSentenceScan(sentences, Len(sentences))

MainDefault == <<"A">>

\* "if a stage has a result, return it": the result of a stage when it is a
\* match, otherwise what the rest of the function returns
OrElse(result, rest) == IF result # NoMatch THEN result ELSE rest

\* the k-th stage of the function
MainStage(k, text) ==
    CASE k = 1 -> MainPatternStage(text)
      [] k = 2 -> MainSentenceStage(text)
      [] k = 3 -> FrequencyOf(Upper(Strip(text)))
      [] k = 4 -> KeywordFrom(Lower(text), 1)
      [] OTHER -> MainDefault

\* the function returns at the first stage that matches; a stage is run only
\* when the stages before it have not matched
RECURSIVE MainFrom(_, _)
MainFrom(text, k) == OrElse(MainStage(k, text), MainFrom(text, k + 1))

extract_choice_answer(text) == MainFrom(text, 1)

-----------------------------------------------------------------------------
(* FinancialQASystemOptimized.extract_choice_answer of main_optimized.py *)

\* choices = re.findall(r'\b([A-D])\b', answer_text_upper), flattened
Choices(upper) ==
    LET found == FindAllFrom(IsolatedLetter, upper, 1)
    IN [i \in 1..Len(found) |-> found[i][1]]

exact_tests ==
    { [key |-> XuanXiang \o <<"A", "he", "D", "shi">> \o ZhengQue \o <<"de">>,
       result |-> <<"A", "D">>],
      [key |-> <<"A", "comma", "B", "comma", "C", "dou", "shi">> \o ZhengQue \o XuanXiang,
       result |-> <<"A", "B", "C">>],
      [key |-> XuanXiang \o <<"B", "yu", "C", "shi">> \o ZhengQue \o DaAn,
       result |-> <<"B", "C">>],
      [key |-> <<"ji", "you", "A", "ye", "you", "B", "shi", "dui", "de">>,
       result |-> <<"A", "B">>],
      [key |-> <<"ben", "ti">> \o DaAn \o <<"bao", "kuo", "A", "yi", "jiji", "C">>,
       result |-> <<"A", "C">>] }

\* stage 1: the whole stripped text is a key of exact_tests
ExactStage(text) ==
    LET hits == {e \in exact_tests : e.key = Strip(text)}
    IN IF hits = {} THEN NoMatch ELSE Sorted((CHOOSE e \in hits : TRUE).result)

ListSeparators == {"comma", "fcomma", "dun"}

specific_patterns ==
    << Str(XuanXiang) \o Spaces \o LetterGroup \o Spaces \o Str(<<"yu">>) \o Spaces
           \o LetterGroup \o Spaces \o Str(<<"shi">>),
       Str(XuanXiang) \o Spaces \o LetterGroup \o Spaces \o Str(<<"he">>) \o Spaces
           \o LetterGroup \o Spaces \o Str(<<"shi">>),
       Str(<<"ji", "you">>) \o Spaces \o LetterGroup \o Spaces \o Str(<<"ye", "you">>)
           \o Spaces \o LetterGroup,
       Str(<<"bao", "kuo">>) \o Spaces \o LetterGroup \o Spaces \o Str(<<"yi", "jiji">>)
           \o Spaces \o LetterGroup,
       LetterGroup \o <<One(ListSeparators)>> \o LetterGroup \o <<One(ListSeparators)>>
           \o LetterGroup \o <<Star(AnyChar)>> \o Str(<<"dou">>) >>

\* the letters of a captured string: re.findall(r'[A-D]', s)
LettersOf(s) == SelectSeq(s, LAMBDA c : c \in Letters)

\* stage 2: the first specific pattern found gives its groups, sorted
RECURSIVE SpecificFrom(_, _)
SpecificFrom(upper, k) ==
    IF k > Len(specific_patterns) THEN NoMatch
    ELSE LET match == ReSearch(specific_patterns[k], upper)
             groups == Groups(specific_patterns[k], upper, match)
             options == [g \in 1..Len(groups) |-> groups[g][1]]
         IN IF match # NoMatch /\ Len(options) >= 2 THEN Sorted(options)
            ELSE SpecificFrom(upper, k + 1)

SpecificStage(text) == SpecificFrom(Upper(Strip(text)), 1)

connectors ==
    { <<"he">>, <<"yu">>, <<"yi", "jiji">>, <<"hai", "you">>, <<"ye", "you">>,
      <<"bao", "kuo">>, <<"han", "gaigai">> }

\* the joiners of the adjacency test, in the order they are tried
Joiners == <<"he", "yu", "dun", "fcomma", "comma">>

LetterOrder == <<"A", "B", "C", "D">>

\* option1 \s* conn \s* option2
AdjacentPattern(option1, conn, option2) ==
    Str(<<option1>>) \o Spaces \o Str(<<conn>>) \o Spaces \o Str(<<option2>>)

\* the first pair (option1, option2), in loop order, that stands joined
AdjacentPair(upper) ==
    LET found(a, b) == a # b /\ \E c \in 1..Len(Joiners) :
                           ReSearch(AdjacentPattern(LetterOrder[a], Joiners[c], LetterOrder[b]),
                                    upper) # NoMatch
        pairs == {ab \in (1..4) \X (1..4) : found(ab[1], ab[2])}
        first == CHOOSE ab \in pairs :
                     \A cd \in pairs : ab[1] < cd[1] \/ (ab[1] = cd[1] /\ ab[2] <= cd[2])
    IN IF pairs = {} THEN NoMatch
       ELSE Sorted(<<LetterOrder[first[1]], LetterOrder[first[2]]>>)

HasConnector(text) == ContainsAny(Lower(Strip(text)), connectors)

HasMultipleOptions(text) == Cardinality(Range(Choices(Upper(Strip(text))))) >= 2

\* stage 3: a connector word and two distinct isolated options
ConnectorStage(text) ==
    IF HasConnector(text) /\ HasMultipleOptions(text)
    THEN LET pair == AdjacentPair(Upper(Strip(text)))
         IN IF pair # NoMatch THEN pair
            ELSE SortedSet(Range(Choices(Upper(Strip(text)))))
    ELSE NoMatch

\* stage 4: "都是正确" or "都正确"
AllCorrectStage(text) ==
    IF /\ ContainsAny(Upper(Strip(text)),
                      {<<"dou", "shi">> \o ZhengQue, <<"dou">> \o ZhengQue})
       /\ HasMultipleOptions(text)
    THEN SortedSet(Range(Choices(Upper(Strip(text)))))
    ELSE NoMatch

DeclSeparators == {"comma", "fcomma", "dun", "dot", "fsemi", "semi"}

\* [A-D][,，、\.；;]*[A-D][,，、\.；;]*[A-D]?[,，、\.；;]*[A-D]?
LetterList ==
    << One(Letters), Star(DeclSeparators), One(Letters), Star(DeclSeparators),
       Opt(Letters), Star(DeclSeparators), Opt(Letters) >>

\* [A-D][,，、]+[A-D][,，、]*[A-D]?[,，、]*[A-D]?
SeparatedList ==
    << One(Letters), Plus(ListSeparators), One(Letters), Star(ListSeparators),
       Opt(Letters), Star(ListSeparators), Opt(Letters) >>

multi_patterns ==
    << Str(ZhengQue) \o Str(DaAn) \o <<One(ShiWei \cup Colons)>> \o Spaces \o Group(LetterList),
       Str(DaAn) \o <<One(ShiWei \cup Colons)>> \o Spaces \o Group(LetterList),
       Str(XuanZe) \o Spaces \o Group(LetterList),
       Str(YingGai) \o Str(XuanZe) \o Spaces \o Group(LetterList),
       Group(SeparatedList) \o Spaces \o Str(ZhengQue),
       Str(ZhengQue) \o Str(DaAn) \o <<Opt(ShiWei)>> \o Spaces \o Group(SeparatedList),
       Str(DaAn) \o Str(<<"wei">>) \o <<One(Colons)>> \o Spaces
           \o Group(<<One(Letters), Star(DeclSeparators), One(Letters)>>) >>

\* the first multi pattern whose first match names more than one option
RECURSIVE FirstMultiChoice(_, _, _)
FirstMultiChoice(ps, t, k) ==
    IF k > Len(ps) THEN NoMatch
    ELSE LET pattern_choices == LettersOf(Strip(FirstGroup(ps[k], t)))
         IN IF Cardinality(Range(pattern_choices)) > 1 THEN SortedSet(Range(pattern_choices))
            ELSE FirstMultiChoice(ps, t, k + 1)

\* stage 5
MultiStage(text) == FirstMultiChoice(multi_patterns, Upper(Strip(text)), 1)

\* the words that mark an option in the per-option scan
OptionMarks == << ZhengQue, ZhengQue, <<"shi">> \o ZhengQue \o <<"de">>, XuanZe,
                  <<"dui">>, <<"shi", "dui", "de">> >>

\* option_patterns of an option
OptionPatterns(option) ==
    [k \in 1..Len(OptionMarks) |->
        (IF k = 2 THEN Str(XuanXiang) ELSE <<>>) \o Str(<<option>>)
            \o <<Star(NotLetter)>> \o Str(OptionMarks[k])]

\* correct_options of the per-option scan
CorrectOptions(upper) ==
    SelectSeq(LetterOrder,
              LAMBDA option : \E k \in 1..Len(OptionMarks) :
                                  ReSearch(OptionPatterns(option)[k], upper) # NoMatch)

\* stage 6
PerOptionStage(text) ==
    LET correct_options == CorrectOptions(Upper(Strip(text)))
    IN IF Len(correct_options) > 1 THEN Sorted(correct_options) ELSE NoMatch

\* single_patterns of main_optimized.py is the list patterns of main.py
single_patterns == patterns

\* stage 7
SingleStage(text) == FirstPatternChoice(single_patterns, Upper(Strip(text)), 1)

\* stage 8: each sentence, the last first, against the first 4 multi patterns
\* and then the first 8 single patterns
RECURSIVE SentenceScan(_, _)
SentenceScan(sentences, k) ==
    IF k = 0 THEN NoMatch
    ELSE LET choice ==
                 IF Strip(sentences[k]) = <<>> THEN NoMatch
                 ELSE LET multi == FirstMultiChoice(SubSeq(multi_patterns, 1, 4),
                                                    Upper(sentences[k]), 1)
                      IN IF multi # NoMatch THEN multi
                         ELSE FirstPatternChoice(SubSeq(single_patterns, 1, 8),
                                                 Upper(sentences[k]), 1)
         IN IF choice # NoMatch THEN choice ELSE SentenceScan(sentences, k - 1)

LastSentenceStage(text) ==
    LET sentences == SplitSentences(Strip(text), 1, <<>>)
    IN SentenceScan(sentences, Len(sentences))

\* stage 9
FrequencyStage(text) == FrequencyOf(Upper(Strip(text)))

\* stage 10
KeywordStage(text) == KeywordFrom(Lower(Strip(text)), 1)

\* stage 11
OptimizedDefault == <<"A">>

\* the k-th stage of the function
OptimizedStage(k, text) ==
    CASE k = 1 -> ExactStage(text)
      [] k = 2 -> SpecificStage(text)
      [] k = 3 -> ConnectorStage(text)
      [] k = 4 -> AllCorrectStage(text)
      [] k = 5 -> MultiStage(text)
      [] k = 6 -> PerOptionStage(text)
      [] k = 7 -> SingleStage(text)
      [] k = 8 -> LastSentenceStage(text)
      [] k = 9 -> FrequencyStage(text)
      [] k = 10 -> KeywordStage(text)
      [] OTHER -> OptimizedDefault

\* the function returns at the first stage that matches; a stage is run only
\* when the stages before it have not matched
RECURSIVE OptimizedFrom(_, _)
OptimizedFrom(text, k) == OrElse(OptimizedStage(k, text), OptimizedFrom(text, k + 1))

extract_choice_answer_optimized(text) == OptimizedFrom(text, 1)

-----------------------------------------------------------------------------
(* extract_choice_answer_fixed of fix/fix_extract_choice_answer.py *)

\* ([A-D](?:[和与,，、][A-D])*)
JoinedLetters ==
    Group(<<One(Letters), Pairs({"he", "yu", "comma", "fcomma", "dun"}, Letters)>>)

\* [是为：:]\s*([A-D](?:[和与,，、][A-D])*)
Declared == <<One(ShiWei \cup Colons)>> \o Spaces \o JoinedLetters

conclusion_patterns ==
    << Str(ConclusionWords[3]) \o <<Opt(Commas)>> \o Spaces \o Str(ZhengQue) \o Str(DaAn)
           \o Declared,
       Str(ConclusionWords[1]) \o <<Opt(Commas)>> \o Spaces \o Str(ZhengQue) \o Str(DaAn) \o Declared,
       Str(ConclusionWords[2]) \o <<Opt(Commas)>> \o Spaces \o Str(ZhengQue) \o Str(DaAn) \o Declared,
       Str(ConclusionWords[4]) \o <<Opt(Commas)>> \o Spaces \o Str(ZhengQue) \o Str(DaAn)
           \o Declared,
       Str(ZhengQue) \o Str(DaAn) \o Declared,
       Str(DaAn) \o Declared,
       Str(DaAn) \o Str(YingGai) \o Declared >>

\* the first conclusion pattern found gives the letters of its group
RECURSIVE ConclusionFrom(_, _)
ConclusionFrom(upper, k) ==
    IF k > Len(conclusion_patterns) THEN NoMatch
    ELSE LET options == LettersOf(Strip(FirstGroup(conclusion_patterns[k], upper)))
         IN IF options # <<>> THEN SortedSet(Range(options))
            ELSE ConclusionFrom(upper, k + 1)

FixedConclusionStage(text) == ConclusionFrom(Upper(Strip(text)), 1)

correct_patterns ==
    << Str(XuanXiang) \o Spaces \o LetterGroup \o Spaces \o <<One(ShiWei)>> \o Str(ZhengQue)
           \o Str(<<"de">>),
       Str(XuanXiang) \o Spaces \o LetterGroup \o Spaces \o <<Opt(ShiWei)>> \o Str(ZhengQue),
       LetterGroup \o Spaces \o Str(XuanXiang) \o <<Opt(ShiWei)>> \o Str(ZhengQue),
       LetterGroup \o Spaces \o Str(<<"shi">>) \o Str(ZhengQue) \o Str(<<"de">>),
       LetterGroup \o Spaces \o <<Opt(ShiWei)>> \o Str(ZhengQue) >>

incorrect_patterns ==
    << Str(XuanXiang) \o Spaces \o LetterGroup \o Spaces \o Str(<<"bu">>) \o <<Opt(ShiWei)>>
           \o Str(ZhengQue),
       Str(XuanXiang) \o Spaces \o LetterGroup \o Spaces \o <<Opt(ShiWei)>>
           \o Str(<<"cuo", "wu", "de">>),
       Str(XuanXiang) \o Spaces \o LetterGroup \o Spaces \o <<Opt(ShiWei)>> \o Str(<<"bu">>)
           \o Str(ZhengQue) \o Str(<<"de">>),
       LetterGroup \o Spaces \o Str(XuanXiang) \o <<Opt(ShiWei)>> \o Str(<<"bu">>)
           \o Str(ZhengQue),
       LetterGroup \o Spaces \o Str(<<"bu">>) \o <<Opt(ShiWei)>> \o Str(ZhengQue),
       LetterGroup \o Spaces \o <<Opt(ShiWei)>> \o Str(<<"cuo", "wu", "de">>) >>

\* the options some match of some pattern of ps names
Marked(ps, upper) ==
    {c \in Letters : \E k \in 1..Len(ps) : <<c>> \in Range(FindAllFrom(ps[k], upper, 1))}

\* option_correctness: marked correct and not marked incorrect afterwards
FixedCorrectnessStage(text) ==
    LET upper == Upper(Strip(text))
        correct_options == Marked(correct_patterns, upper) \ Marked(incorrect_patterns, upper)
    IN IF correct_options # {} THEN SortedSet(correct_options) ELSE NoMatch

\* the connector test of the fixed version: only the joined pair
FixedConnectorStage(text) ==
    IF HasConnector(text) /\ HasMultipleOptions(text)
    THEN AdjacentPair(Upper(Strip(text)))
    ELSE NoMatch

\* multi_patterns of the fixed version: the first three of multi_patterns
fixed_multi_patterns == SubSeq(multi_patterns, 1, 3)

FixedMultiStage(text) == FirstMultiChoice(fixed_multi_patterns, Upper(Strip(text)), 1)

\* single_patterns of the fixed version: the first nine patterns, each
\* closed by \b
fixed_single_patterns == [k \in 1..9 |-> patterns[k] \o <<WordBoundary>>]

FixedSingleStage(text) == FirstPatternChoice(fixed_single_patterns, Upper(Strip(text)), 1)

\* the option a sentence calls correct, the first in the order A to D
SentenceOption(sentence_upper) ==
    LET named(option) ==
            \/ ReSearch(Str(<<option>>) \o <<Star(NotLetter)>>
                            \o Str(<<"shi">> \o ZhengQue \o <<"de">>), sentence_upper) # NoMatch
            \/ ReSearch(Str(<<option>>) \o <<Star(NotLetter)>> \o Str(ZhengQue),
                        sentence_upper) # NoMatch
            \/ ReSearch(Str(ZhengQue) \o <<Star(NotLetter)>> \o Str(<<option>>),
                        sentence_upper) # NoMatch
        options == SelectSeq(LetterOrder, named)
    IN IF options = <<>> THEN NoMatch ELSE <<Head(options)>>

RECURSIVE FixedSentenceScan(_, _)
FixedSentenceScan(sentences, k) ==
    IF k = 0 THEN NoMatch
    ELSE LET choice == IF Strip(sentences[k]) = <<>> THEN NoMatch
                       ELSE SentenceOption(Upper(sentences[k]))
         IN IF choice # NoMatch THEN choice ELSE FixedSentenceScan(sentences, k - 1)

FixedSentenceStage(text) ==
    LET sentences == SplitSentences(Strip(text), 1, <<>>)
    IN IF Choices(Upper(Strip(text))) # <<>>
       THEN FixedSentenceScan(sentences, Len(sentences))
       ELSE NoMatch

FixedDefault == <<"B">>

\* the k-th stage of the function
FixedStage(k, text) ==
    CASE k = 1 -> FixedConclusionStage(text)
      [] k = 2 -> FixedCorrectnessStage(text)
      [] k = 3 -> ExactStage(text)
      [] k = 4 -> SpecificStage(text)
      [] k = 5 -> FixedConnectorStage(text)
      [] k = 6 -> FixedMultiStage(text)
      [] k = 7 -> FixedSingleStage(text)
      [] k = 8 -> FixedSentenceStage(text)
      [] OTHER -> FixedDefault

\* the function returns at the first stage that matches; a stage is run only
\* when the stages before it have not matched
RECURSIVE FixedFrom(_, _)
FixedFrom(text, k) == OrElse(FixedStage(k, text), FixedFrom(text, k + 1))

extract_choice_answer_fixed(text) == FixedFrom(text, 1)

-----------------------------------------------------------------------------
(* Model outputs given to the extractors *)

\* "选项X是正确的。" and "选项X不正确。"
OptionStatement(option, verdict) ==
    IF verdict = "correct"
    THEN XuanXiang \o <<option, "shi">> \o ZhengQue \o <<"de", "ju">>
    ELSE XuanXiang \o <<option, "bu">> \o ZhengQue \o <<"ju">>

OptionStatements ==
    {OptionStatement(option, verdict) : option \in Letters, verdict \in {"correct", "incorrect"}}

\* per-option analysis: at most MaxAnalysis statements, one after the other
RECURSIVE AnalysesOf(_)
AnalysesOf(n) ==
    IF n = 0 THEN {<<>>}
    ELSE AnalysesOf(n - 1)
             \cup {st \o a : st \in OptionStatements, a \in AnalysesOf(n - 1)}

Analyses == AnalysesOf(MaxAnalysis)

\* "正确答案是：" and the declared letters joined by 和
RECURSIVE JoinedBy(_, _)
JoinedBy(letters, joiner) ==
    IF Len(letters) <= 1 THEN letters
    ELSE <<Head(letters), joiner>> \o JoinedBy(Tail(letters), joiner)

Declaration(letters) == ZhengQue \o DaAn \o <<"shi", "fcolon">> \o JoinedBy(letters, "he")

\* the letter lists a conclusion declares: one letter or two distinct ones
DeclaredLists ==
    {<<x>> : x \in Letters} \cup {<<xy[1], xy[2]>> : xy \in {p \in Letters \X Letters : p[1] # p[2]}}

Declarations ==
    {prefix \o Declaration(letters) :
        prefix \in {<<>>, ConclusionWords[3] \o <<"fcomma">>}, letters \in DeclaredLists}

\* the letter lists of a text that is per-option analysis followed by a declaration
DeclaredAfterAnalysis(text) ==
    {letters \in DeclaredLists :
        \E a \in Analyses \ {<<>>}, prefix \in {<<>>, ConclusionWords[3] \o <<"fcomma">>} :
            text = a \o prefix \o Declaration(letters)}

\* statements that name two options
PairStatements ==
    UNION {{ XuanXiang \o <<x, "he", y, "shi">> \o ZhengQue \o <<"de">>,
             XuanXiang \o <<x, "yu", y, "shi">> \o ZhengQue \o DaAn,
             <<"ji", "you", x, "ye", "you", y, "shi", "dui", "de">>,
             <<"ben", "ti">> \o DaAn \o <<"bao", "kuo", x, "yi", "jiji", y>>,
             DaAn \o <<"shi", x, "comma", y>>,
             YingGai \o XuanZe \o <<x, "fcomma", y>> } : x \in Letters, y \in Letters}

\* statements that name three options, the first of them A
TripleStatements ==
    UNION {{ <<"A", "comma", y, "comma", z, "dou", "shi">> \o ZhengQue \o XuanXiang,
             ZhengQue \o DaAn \o <<"wei", "A", "dun", y, "dun", z>>,
             <<"A", "dun", y, "dun", z>> \o ZhengQue } : y \in Letters, z \in Letters}

\* "因此X是正确选项": one option named correct
SingleStatements ==
    {ConclusionWords[1] \o <<x, "shi">> \o ZhengQue \o XuanXiang : x \in Letters}

\* statements without an option letter, and answers in lower case
OtherStatements ==
    { <<"zi", "shi", "one", "zi", "zi", "zi">>,
      <<"zi", "you", "zi", "que">> \o XuanXiang \o <<"de">> \o DaAn,
      <<"di", "one">>, <<"qi", "cici">>, <<"ci", "wai">>, <<"zui", "zhong">>,
      <<"sp", "b", "sp">>, DaAn \o <<"shi", "sp", "c">>, <<"nl">> \o XuanZe \o <<"d", "nl">>,
      <<"a", "he", "b">> }

Conclusions ==
    {<<>>} \cup Declarations \cup PairStatements \cup TripleStatements
        \cup SingleStatements \cup OtherStatements

Texts == {a \o c : a \in Analyses, c \in Conclusions}

NoExtraction == [impl |-> "none", result |-> <<>>]

\* what a splitter returned, with the configuration it ran under
NoChunks == [impl |-> "none", chunk_size |-> 0, chunk_overlap |-> 0,
             min_chunk_length |-> 0, result |-> <<>>]

\* no run of run_test: no process and no checkpoint file
MissingStatus == [st |-> "missing", current_idx |-> 0, batch_size |-> 0]
MissingResults == [st |-> "missing", all_results |-> <<>>]
NoRun == [pc |-> "none", start_idx |-> 0, end_idx |-> 0, batch_size |-> 0,
          batch_start |-> 0, all_results |-> <<>>, interrupts |-> 0,
          checkpoint_file |-> MissingStatus, checkpoint_results |-> MissingResults]

ExIdle ==
    /\ answer_text = <<>>
    /\ extracted = NoExtraction
    /\ split_content = <<>>
    /\ split_chunks = NoChunks
    /\ run = NoRun

Init == DbInit /\ ExIdle

\* one model output waits to be parsed; each extractor parses it once
ExtractInit ==
    /\ DbInit
    /\ answer_text \in Texts
    /\ extracted = NoExtraction
    /\ split_content = <<>>
    /\ split_chunks = NoChunks
    /\ run = NoRun

ExtractMain ==
    /\ extracted = NoExtraction
    /\ extracted' = [impl |-> "main", result |-> extract_choice_answer(answer_text)]
    /\ UNCHANGED <<dbvars, answer_text, splitvars, run>>

ExtractOptimized ==
    /\ extracted = NoExtraction
    /\ extracted' = [impl |-> "optimized",
                     result |-> extract_choice_answer_optimized(answer_text)]
    /\ UNCHANGED <<dbvars, answer_text, splitvars, run>>

ExtractFixed ==
    /\ extracted = NoExtraction
    /\ extracted' = [impl |-> "fixed", result |-> extract_choice_answer_fixed(answer_text)]
    /\ UNCHANGED <<dbvars, answer_text, splitvars, run>>

ExtractNext == ExtractMain \/ ExtractOptimized \/ ExtractFixed

ExtractSpec == ExtractInit /\ [][ExtractNext]_vars

\* the database driven through its own methods
Next ==
    \/ NewInstance
    \/ Build
    \/ Load
    \/ Clear
    \/ DoSearch
    \/ RetrieveDocuments

Spec == Init /\ [][Next]_vars

\* the database driven through the RAG engine
EngineNext ==
    \/ NewInstance
    \/ BuildIndex
    \/ RebuildVectorDb
    \/ RetrieveDocuments

EngineSpec == Init /\ [][EngineNext]_vars

\* the engine with an embedding wrapper that may be unavailable
EmbedNext ==
    \/ NewInstance
    \/ BuildIndexEmbedded
    \/ RebuildVectorDbEmbedded
    \/ RetrieveDocuments

EmbedSpec == Init /\ [][EmbedNext]_vars

-----------------------------------------------------------------------------
(* The splitters applied to one document text *)

\* plain texts of sentences and lines
PlainContents == SeqsUpTo({"a", "ju", "nl"}, MaxContent)

\* texts that open with the title "#a#"
TitledContents == {<<"hash", "a", "hash">> \o c : c \in PlainContents}

\* texts with the heading line "## 第一章 ##" (without its spaces) inside
HeadedContents ==
    {pre \o <<"nl", "hash", "hash", "di", "one", "zhang", "hash", "hash", "nl">> \o post :
        pre \in SeqsUpTo({"a", "ju"}, 2), post \in SeqsUpTo({"a", "ju"}, 2)}

Contents == PlainContents \cup TitledContents \cup HeadedContents

\* the values of config.CHUNK_SIZE tried
ChunkSizes == CHUNK_SIZE..MaxChunkSize

\* one document text waits to be split; each splitter splits it once
SplitInit ==
    /\ DbInit
    /\ answer_text = <<>>
    /\ extracted = NoExtraction
    /\ split_content \in Contents
    /\ split_chunks = NoChunks
    /\ run = NoRun

\* config.CHUNK_SIZE, CHUNK_OVERLAP and MIN_CHUNK_LENGTH are drawn;
\* VectorDatabase._split_document never reads MIN_CHUNK_LENGTH
SplitVectorDb ==
    /\ split_chunks = NoChunks
    /\ \E chunk_size \in ChunkSizes, chunk_overlap \in 0..CHUNK_OVERLAP,
          min_chunk_length \in 1..MaxMinChunk :
          split_chunks' = [impl |-> "vector_db", chunk_size |-> chunk_size,
                           chunk_overlap |-> chunk_overlap,
                           min_chunk_length |-> min_chunk_length,
                           result |-> SplitDocument(split_content, chunk_size, chunk_overlap)]
    /\ UNCHANGED <<dbvars, answer_text, extracted, split_content, run>>

\* DocumentProcessor._split_document computes chunk_overlap and does not use it
SplitProcessor ==
    /\ split_chunks = NoChunks
    /\ \E chunk_size \in ChunkSizes, chunk_overlap \in 0..CHUNK_OVERLAP,
          min_chunk_length \in 1..MaxMinChunk :
          split_chunks' = [impl |-> "processor", chunk_size |-> chunk_size,
                           chunk_overlap |-> chunk_overlap,
                           min_chunk_length |-> min_chunk_length,
                           result |-> ProcessorSplitDocument(split_content, chunk_size,
                                                             min_chunk_length)]
    /\ UNCHANGED <<dbvars, answer_text, extracted, split_content, run>>

SplitNext == SplitVectorDb \/ SplitProcessor

SplitSpec == SplitInit /\ [][SplitNext]_vars

-----------------------------------------------------------------------------
(* VectorDatabase._split_document, one iteration of its loop at a time *)

\* the call is entered with some text and some configuration; split_chunks
\* holds the local variables start, end and chunks, where the call is, and
\* the end of the chunk appended last
LoopInit ==
    /\ DbInit
    /\ answer_text = <<>>
    /\ extracted = NoExtraction
    /\ split_content \in PlainContents
    /\ run = NoRun
    /\ \E chunk_size \in 1..MaxChunkSize, chunk_overlap \in 0..MaxOverlap :
          split_chunks = [pc |-> "entry", chunk_size |-> chunk_size,
                          chunk_overlap |-> chunk_overlap,
                          start |-> 0, end |-> 0, chunks |-> <<>>,
                          appended_end |-> 0]

\* if len(content) <= chunk_size: return [content]; else chunks = [], start = 0
LoopEnter ==
    /\ split_chunks.pc = "entry"
    /\ split_chunks' =
          IF Len(split_content) <= split_chunks.chunk_size
          THEN [split_chunks EXCEPT !.pc = "returned", !.chunks = <<split_content>>]
          ELSE [split_chunks EXCEPT !.pc = "loop"]
    /\ UNCHANGED <<dbvars, answer_text, extracted, split_content, run>>

\* one pass through the body of the while-loop
LoopIterate ==
    /\ split_chunks.pc = "loop"
    /\ split_chunks.start < Len(split_content)
    /\ \E end \in {ChunkEnd(split_content, split_chunks.chunk_size, split_chunks.start)} :
          split_chunks' =
              [split_chunks EXCEPT
                  !.end = end,
                  !.chunks = AppendChunk(@, split_content, split_chunks.start, end),
                  !.appended_end =
                      IF AppendChunk(split_chunks.chunks, split_content,
                                     split_chunks.start, end) # split_chunks.chunks
                      THEN Min2(end, Len(split_content)) ELSE @,
                  !.start = NextStart(@, end, split_chunks.chunk_overlap)]
    /\ UNCHANGED <<dbvars, answer_text, extracted, split_content, run>>

\* the loop condition fails: return chunks
LoopReturn ==
    /\ split_chunks.pc = "loop"
    /\ split_chunks.start >= Len(split_content)
    /\ split_chunks' = [split_chunks EXCEPT !.pc = "returned"]
    /\ UNCHANGED <<dbvars, answer_text, extracted, split_content, run>>

LoopNext == LoopEnter \/ LoopIterate \/ LoopReturn

LoopSpec == LoopInit /\ [][LoopNext]_vars

\* the call keeps running until it returns
LoopLiveSpec == LoopSpec /\ WF_vars(LoopNext)

-----------------------------------------------------------------------------
(* Batches of documents, one of which may have no text *)

\* a document whose 'text' is None: _split_document raises on len(content)
NoText == <<"None">>

Batches == SeqsUpTo(DocPool \cup {NoText}, MaxBatch)

\* where a build of the batch fails: in the split of a document without
\* text, if there is one
BatchFault(documents) ==
    [at |-> IF \E i \in 1..Len(documents) : documents[i] = NoText THEN "split" ELSE "none",
     torn |-> FALSE]

\* build_from_documents on a batch; the caller's observation keeps the batch
BuildBatch ==
    \E documents \in Batches, force_rebuild \in BOOLEAN :
        \E b \in {BuildFromDocuments(World, documents, force_rebuild, BatchFault(documents))} :
            /\ SetWorld(b.w)
            /\ last' = [op |-> "build", ret |-> b.ret, saved |-> b.saved,
                        documents |-> documents, force_rebuild |-> force_rebuild]
            /\ completed' = (completed \/ b.ret = "True")
            /\ UNCHANGED exvars

\* build_index with the batch in the document directory
BuildIndexBatch ==
    \E documents \in Batches, force_rebuild \in BOOLEAN :
        \E b \in {EngineBuildIndex(World, force_rebuild, documents, BatchFault(documents))} :
            /\ SetWorld(b.w)
            /\ last' = [op |-> "build_index", ret |-> b.ret, saved |-> b.saved,
                        documents |-> documents, force_rebuild |-> force_rebuild]
            /\ completed' = (completed \/ b.ret \in {"loaded", "built"})
            /\ UNCHANGED exvars

\* the database and the engine given batches of documents
BatchNext ==
    \/ NewInstance
    \/ BuildBatch
    \/ BuildIndexBatch

BatchSpec == Init /\ [][BatchNext]_vars

-----------------------------------------------------------------------------
(* A run of run_test with its checkpoint *)

(* A result is named by the index of its question.  The two checkpoint     *)
(* files outlive the process; all_results, batch_start and batch_size are  *)
(* lost when the process ends.                                             *)

\* process_batch(questions, batch_start, batch_end)
ProcessBatch(batch_start, batch_end) ==
    [i \in 1..(batch_end - batch_start) |-> batch_start + i - 1]

\* batch_end = min(batch_start + batch_size, end_idx)
BatchEnd(r) == Min2(r.batch_start + r.batch_size, r.end_idx)

\* has_checkpoint: both files exist
HasCheckpoint(r) ==
    r.checkpoint_file.st = "ok" /\ r.checkpoint_results.st = "ok"

\* save_checkpoint, first write: the status file
SaveStatus(r, current_idx) ==
    [r EXCEPT !.checkpoint_file =
        [st |-> "ok", current_idx |-> current_idx, batch_size |-> r.batch_size]]

\* save_checkpoint, second write: the results file
SaveResults(r) ==
    [r EXCEPT !.checkpoint_results = [st |-> "ok", all_results |-> r.all_results]]

\* save_checkpoint(current_idx, total, batch_size, all_results)
SaveCheckpoint(r, current_idx) == SaveResults(SaveStatus(r, current_idx))

\* clear_checkpoint
ClearCheckpoint(r) ==
    [r EXCEPT !.checkpoint_file = MissingStatus, !.checkpoint_results = MissingResults]

\* the process is gone: its memory is lost, the files stay
ProcessEnded(r) ==
    [r EXCEPT !.pc = "off", !.start_idx = 0, !.batch_size = 0, !.batch_start = 0,
              !.all_results = <<>>, !.interrupts = @ + 1]

\* run_test up to the loop: with a checkpoint and the choice to resume the
\* start index, the batch size and the results come from the checkpoint;
\* with a checkpoint and no resume the checkpoint is cleared
StartRun(r, batch_size, resume) ==
    IF resume /\ HasCheckpoint(r)
    THEN [r EXCEPT !.pc = "loop",
                   !.start_idx = r.checkpoint_file.current_idx,
                   !.batch_start = r.checkpoint_file.current_idx,
                   !.batch_size = r.checkpoint_file.batch_size,
                   !.all_results = r.checkpoint_results.all_results]
    ELSE [(IF HasCheckpoint(r) THEN ClearCheckpoint(r) ELSE r) EXCEPT
                   !.pc = "loop", !.start_idx = 0, !.batch_start = 0,
                   !.batch_size = batch_size, !.all_results = <<>>]

RunIdle ==
    /\ answer_text = <<>>
    /\ extracted = NoExtraction
    /\ split_content = <<>>
    /\ split_chunks = NoChunks

\* the questions are loaded, no process runs, no checkpoint exists
RunInit ==
    /\ DbInit
    /\ RunIdle
    /\ run = [NoRun EXCEPT !.pc = "off", !.end_idx = MaxQuestions]

\* run_test is called (again)
RunTest ==
    /\ run.pc = "off"
    /\ \E batch_size \in 1..MaxBatchSize, resume \in BOOLEAN :
          run' = StartRun(run, batch_size, resume)
    /\ UNCHANGED <<dbvars, answer_text, extracted, splitvars>>

\* one batch is processed and its results are appended to all_results
ExtendResults ==
    /\ run.pc = "loop"
    /\ run.batch_start < run.end_idx
    /\ run' = [run EXCEPT !.pc = "extended",
                          !.all_results = @ \o ProcessBatch(run.batch_start, BatchEnd(run))]
    /\ UNCHANGED <<dbvars, answer_text, extracted, splitvars>>

\* save_results of the batch, then save_checkpoint(batch_end, ...) writes
\* the status file
WriteStatus ==
    /\ run.pc = "extended"
    /\ run' = [SaveStatus(run, BatchEnd(run)) EXCEPT !.pc = "saving"]
    /\ UNCHANGED <<dbvars, answer_text, extracted, splitvars>>

\* save_checkpoint writes the results file; the loop goes to the next batch
WriteResults ==
    /\ run.pc = "saving"
    /\ run' = [SaveResults(run) EXCEPT !.pc = "loop",
                                       !.batch_start = @ + run.batch_size]
    /\ UNCHANGED <<dbvars, answer_text, extracted, splitvars>>

\* the loop is over: the final files are written, the checkpoint is cleared
Finish ==
    /\ run.pc = "loop"
    /\ run.batch_start >= run.end_idx
    /\ run' = [ClearCheckpoint(run) EXCEPT !.pc = "done"]
    /\ UNCHANGED <<dbvars, answer_text, extracted, splitvars>>

\* KeyboardInterrupt or an exception inside the try block: the handler
\* calls save_checkpoint(batch_start, ...) and run_test returns False
Interrupt ==
    /\ run.pc \in {"loop", "extended", "saving"}
    /\ run.batch_start < run.end_idx
    /\ run.interrupts < MaxInterrupts
    /\ run' = ProcessEnded(SaveCheckpoint(run, run.batch_start))
    /\ UNCHANGED <<dbvars, answer_text, extracted, splitvars>>

\* the process is killed; at "saving" this is between the two file writes
Crash ==
    /\ run.pc \in {"loop", "extended", "saving"}
    /\ run.interrupts < MaxInterrupts
    /\ run' = ProcessEnded(run)
    /\ UNCHANGED <<dbvars, answer_text, extracted, splitvars>>

RunNext ==
    \/ RunTest
    \/ ExtendResults
    \/ WriteStatus
    \/ WriteResults
    \/ Finish
    \/ Interrupt
    \/ Crash

RunSpec == RunInit /\ [][RunNext]_vars

-----------------------------------------------------------------------------
(* Properties of the vector database *)

Memory == <<index, document_store, vector_metadata, is_loaded>>
Disk == <<faiss_index_file, metadata_file, document_store_file>>

AllFilesExist == CanLoadExisting(World)

\* the three files a successful build of a batch writes
BuiltTriple(documents) ==
    LET meta == ChunkMetadata(documents, 1)
    IN << FileOf(EncodeTexts(TextChunks(meta))),
          FileOf([present |-> TRUE, total_vectors |-> Len(meta),
                  document_count |-> Len(documents)]),
          FileOf(meta) >>

\* the triples of files that are the complete output of one build
CompleteTriples ==
    {BuiltTriple(documents) : documents \in {d \in DocLists : ChunkMetadata(d, 1) # <<>>}}

\* the files on disk disagree: one is unreadable, or the row count of the
\* index differs from the number of stored passages or from total_vectors
DiskInconsistent ==
    /\ AllFilesExist
    /\ \/ Corrupt \in {faiss_index_file, metadata_file, document_store_file}
       \/ Len(faiss_index_file.val) # Len(document_store_file.val)
       \/ Len(faiss_index_file.val) # metadata_file.val.total_vectors

\* row i of the index is the vector of the i-th passage of the store
RowsMatchStore ==
    /\ Len(index.rows) = Len(document_store)
    /\ \A i \in 1..Len(document_store) :
          index.rows[i] = NormalizeVectors(EmbedRaw(document_store[i].text))

\* every hit of every search names the passage that was embedded into its row
HitsNameTheirRow ==
    \A query \in Queries, top_k \in 1..MaxK :
        LET s == Search(World, query, top_k)
        IN /\ s.ret # "IndexError"
           /\ \A r \in 1..Len(s.hits) :
                 index.rows[s.hits[r].row] = NormalizeVectors(EmbedRaw(s.hits[r].text))

\* C1: after every build_from_documents that returns True and every
\* load_from_disk that returns True, the index has as many rows as the
\* passage store has entries.
C1_RowCountEqualsStore ==
    (last.op \in {"build", "load"} /\ last.ret = "True")
        => (index.st = "index" /\ Len(index.rows) = Len(document_store))

\* C2: a full rebuild is atomic: it either replaces the three files by the
\* complete triple of the new build, or, when a step fails, leaves the
\* files exactly as they were.
C2_RebuildAtomic ==
    [][(last'.op \in {"build", "build_index", "rebuild"} /\ last'.ret # "loaded")
          => IF last'.ret \in {"True", "built"} /\ last'.saved = "ok"
             THEN Disk' \in CompleteTriples
             ELSE UNCHANGED Disk]_vars

\* C4: a search on a database on which no build and no load has completed
\* raises; it never returns a result list.
C4_SearchUnreadyRaises ==
    (last.op \in {"search", "retrieve"} /\ ~completed) => last.ret = "ValueError"

\* C4 witness: a load failed after it had read the index (the index is set,
\* the database is not ready) and the search that followed raised.
C4_Witness ==
    /\ last.op = "search"
    /\ ~completed
    /\ index.st = "index"
    /\ index.rows # <<>>
    /\ last.ret = "ValueError"

\* C5: at all times the i-th key of the passage store is the passage whose
\* vector is row i of the index, and a search hit at row i is reported with
\* the id and text of the passage embedded into row i.
C5_StoreOrderIsRowOrder ==
    index.st = "index" => (RowsMatchStore /\ HitsNameTheirRow)

\* C6: when the three files exist but are inconsistent, load reports failure
\* and the database does not become loaded.
C6_InconsistentLoadFails ==
    (last.op = "load" /\ DiskInconsistent) => last.ret = "False"

\* C7: whenever save_to_disk fails, build_from_documents does not report
\* success and build_index does not treat the index as built.
C7_SaveFailureFailsBuild ==
    (last.op \in {"build", "build_index", "rebuild"} /\ last.saved = "failed")
        => last.ret \notin {"True", "built"}

\* C8: a build that fails or raises at any step leaves the in-memory index,
\* passage store, metadata and is_loaded as they were before it started.
C8_FailedBuildKeepsMemory ==
    [][(last'.op = "build" /\ last'.ret = "raise") => UNCHANGED Memory]_vars

\* C16: a load with one of the three files missing returns False and leaves
\* the in-memory index, store, metadata and is_loaded as they were, whatever
\* the files that are present hold; so a load that returns True found all
\* three files.
C16_LoadNeedsAllThreeFiles ==
    [][(last'.op = "load" /\ SomeFileMissing) => (last'.ret = "False" /\ UNCHANGED Memory)]_vars

\* a load has failed although the index file of an earlier build is there
C16_Witness ==
    /\ last.op = "load"
    /\ last.ret = "False"
    /\ faiss_index_file.st = "ok"
    /\ faiss_index_file.val # <<>>
    /\ metadata_file.st = "missing"
    /\ document_store_file.st = "missing"

\* the Empty state: no file, no index, nothing in memory
Empty ==
    /\ faiss_index_file = Missing
    /\ metadata_file = Missing
    /\ document_store_file = Missing
    /\ index = NoIndex
    /\ document_store = <<>>
    /\ vector_metadata = EmptyMetadata
    /\ ~is_loaded

\* C17: clear leads to the Empty state, and from the Empty state every load
\* returns False and every search or retrieval raises ValueError, leaving
\* the state Empty; only a build leaves it.
C17_ClearLeadsToEmpty ==
    [][ /\ last'.op = "clear" => Empty'
        /\ (Empty /\ last'.op = "load") => (last'.ret = "False" /\ Empty')
        /\ (Empty /\ last'.op \in {"search", "retrieve"})
               => (last'.ret = "ValueError" /\ Empty')
        /\ (Empty /\ last'.op = "new") => Empty' ]_vars

\* clear has been called on a loaded database with its three files on disk
C17_Witness ==
    /\ last.op = "clear"
    /\ last.was_loaded
    /\ last.was_persisted
    /\ Empty

\* what a caller sees of search(query, top_k): the outcome, the passage ids in
\* order, and the vector each hit was scored against
SearchResults(w, query, top_k) ==
    LET s == Search(w, query, top_k)
    IN [ret |-> s.ret,
        ids |-> [r \in 1..Len(s.hits) |-> s.hits[r].chunk_id],
        scored |-> [r \in 1..Len(s.hits) |-> w.index.rows[s.hits[r].row]]]

\* a new VectorDatabase object over the current files, after load_from_disk
FreshLoad == LoadFromDisk(NewObject(World))

\* C18: after a build has returned True (its save_to_disk done), a fresh
\* instance that loads the files gives, for every query and top_k, the same
\* passage ids in the same order with the same scores as this instance.
C18_SearchSameAfterSaveLoad ==
    (last.op = "build" /\ last.ret = "True" /\ FreshLoad.ret)
        => \A query \in Queries, top_k \in 1..MaxK :
              SearchResults(FreshLoad.w, query, top_k) = SearchResults(World, query, top_k)

\* search(query, top_k) returns every row of the index once, each with the id
\* and text of an entry of the passage store, and does not raise
ReturnsAllRows(w, query, top_k) ==
    LET s == Search(w, query, top_k)
    IN /\ s.ret = "ok"
       /\ Len(s.hits) = Len(w.index.rows)
       /\ {s.hits[r].row : r \in 1..Len(s.hits)} = 1..Len(w.index.rows)
       /\ \A r \in 1..Len(s.hits) :
             \E e \in 1..Len(w.document_store) :
                /\ w.document_store[e].chunk_id = s.hits[r].chunk_id
                /\ w.document_store[e].text = s.hits[r].text

\* C19: when retrieve_documents has been called on a loaded index that has
\* fewer than TOP_K rows, the search with TOP_K returns all the rows, each a
\* passage of the store, and does not raise.
C19_FewerRowsThanKReturnsAll ==
    ( /\ last.op = "retrieve"
      /\ is_loaded
      /\ index.st = "index"
      /\ Len(index.rows) < TOP_K )
        => /\ last.ret = "ok"
           /\ \A query \in Queries : ReturnsAllRows(World, query, TOP_K)

-----------------------------------------------------------------------------
(* Properties of the answer extractors *)

\* a non-empty list of option letters, ascending, no letter twice
SortedUniqueLetters(result) ==
    /\ result # <<>>
    /\ \A i \in 1..Len(result) : result[i] \in Letters
    /\ \A i \in 1..Len(result), j \in 1..Len(result) :
           i < j => LetterRank(result[i]) < LetterRank(result[j])

\* C3: whatever the text and whichever extractor ran, the list returned is
\* non-empty, holds only letters of A to D, ascends and names no letter twice.
C3_SortedUniqueLetters ==
    extracted.impl # "none" => SortedUniqueLetters(extracted.result)

\* the first of a list of stage results that is a match
RECURSIVE FirstOf(_)
FirstOf(stages) ==
    IF stages = <<>> THEN NoMatch
    ELSE IF Head(stages) # NoMatch THEN Head(stages)
    ELSE FirstOf(Tail(stages))

\* The stages of each extractor laid out in the documented order 1 to 11:
\* exact overrides, conjunction pairs, connector heuristic, all-correct
\* phrase, multi-answer declarations, per-option scan, single-answer
\* declarations, last sentence, frequency, keyword, default.  The fixed
\* version has no all-correct, frequency or keyword stage; its conclusion
\* patterns are declarations of one or several answers.
DocumentedOrder(impl, text) ==
    IF impl = "optimized" THEN [k \in 1..11 |-> OptimizedStage(k, text)]
    ELSE << ExactStage(text), SpecificStage(text), FixedConnectorStage(text), NoMatch,
            FirstOf(<<FixedConclusionStage(text), FixedMultiStage(text)>>),
            FixedCorrectnessStage(text), FixedSingleStage(text), FixedSentenceStage(text),
            NoMatch, NoMatch, FixedDefault >>

\* C9: the list returned by main_optimized.py's and by the fixed extractor is
\* the match of the earliest stage, in the documented order 1 to 11, that
\* matches the text.
C9_EarliestStageWins ==
    extracted.impl \in {"optimized", "fixed"} =>
        extracted.result = FirstOf(DocumentedOrder(extracted.impl, answer_text))

\* C10: for a text that is per-option analysis followed by the declaration
\* "正确答案是：X" (one letter or letters joined by 和), main.py's extractor
\* returns exactly the declared letters, ascending.
C10_DeclaredLettersReturned ==
    extracted.impl = "main" =>
        \A letters \in DeclaredAfterAnalysis(answer_text) :
            extracted.result = Sorted(letters)

\* C11: for a text that declares several options joined by separators or
\* connector words, the extractors of main.py and main_optimized.py return
\* all the declared letters, ascending.
C11_AllDeclaredLettersReturned ==
    ( /\ extracted.impl \in {"main", "optimized"}
      /\ answer_text \in PairStatements \cup TripleStatements
      /\ Cardinality(Range(LettersOf(answer_text))) >= 2 )
        => extracted.result = SortedSet(Range(LettersOf(answer_text)))

\* a text with no option letter, in either case, and no ordinal keyword
NothingToExtract(text) ==
    /\ LettersOf(Upper(text)) = <<>>
    /\ KeywordFrom(Lower(text), 1) = NoMatch

\* C12: for a text with no option letter and no ordinal keyword, the
\* extractor of main_optimized.py and the fixed extractor return ['A'].
C12_DefaultIsA ==
    (extracted.impl \in {"optimized", "fixed"} /\ NothingToExtract(answer_text))
        => extracted.result = <<"A">>

\* the options the per-option correctness scan of an extractor collects
ScanCollects(impl, text) ==
    IF impl = "optimized" THEN Range(CorrectOptions(Upper(Strip(text))))
    ELSE Marked(correct_patterns, Upper(Strip(text)))
             \ Marked(incorrect_patterns, Upper(Strip(text)))

\* the text says "选项X不正确" of an option it mentions nowhere else
OnlyCalledIncorrect(text, option) ==
    /\ Contains(text, XuanXiang \o <<option, "bu">> \o ZhengQue)
    /\ Cardinality({i \in 1..Len(text) : text[i] = option}) = 1

\* C13: the per-option correctness scan of main_optimized.py and of the
\* fixed extractor does not collect an option that the text only calls
\* "不正确".
C13_IncorrectOptionNotCollected ==
    extracted.impl \in {"optimized", "fixed"} =>
        \A option \in Letters :
            OnlyCalledIncorrect(answer_text, option)
                => option \notin ScanCollects(extracted.impl, answer_text)

-----------------------------------------------------------------------------
(* Properties of building from a batch *)

\* the passages of the documents of a batch that have a text
GoodPassages(documents) ==
    TextChunks(ChunkMetadata(SelectSeq(documents, LAMBDA d : d # NoText), 1))

\* C14: when one document of a batch cannot be split, build_from_documents
\* still completes and the store holds the passages of all other documents
\* of the batch.
C14_BadDocumentSkipped ==
    ( /\ last.op = "build"
      /\ \E i \in 1..Len(last.documents) : last.documents[i] = NoText
      /\ GoodPassages(last.documents) # <<>> )
        => ( /\ last.ret = "True"
             /\ TextChunks(document_store) = GoodPassages(last.documents) )

\* C15: the persisted index is reused (build_index returns after a load,
\* build_from_documents never reuses it) only if no rebuild was forced and
\* the document set is within 10% growth of the last-built document count;
\* in every other case that completes, the index holds a full rebuild of the
\* given documents.
C15_ReuseOnlyWithinTolerance ==
    (last.op \in {"build", "build_index"} /\ last.ret \in {"True", "built", "loaded"})
        => IF last.ret = "loaded"
           THEN /\ ~last.force_rebuild
                /\ 10 * Len(last.documents) <= 11 * vector_metadata.document_count
           ELSE TextChunks(document_store) = TextChunks(ChunkMetadata(last.documents, 1))

-----------------------------------------------------------------------------
(* Properties of the splitters *)

\* the title prefix the splitter puts before each passage
PrefixOf(impl, text) == IF impl = "processor" THEN TitlePrefix(text) ELSE <<>>

\* the passage without the title prefix
WithoutPrefix(passage, prefix) ==
    IF Len(passage) >= Len(prefix) /\ SubSeq(passage, 1, Len(prefix)) = prefix
    THEN SubSeq(passage, Len(prefix) + 1, Len(passage))
    ELSE passage

\* one sentence of one line: no line break, and no sentence end before the
\* last character
SingleSentence(text) ==
    \A i \in 1..(Len(text) - 1) : text[i] \notin {"ju", "tan", "wen", "nl"}

\* C20: every passage a splitter returns is at most chunk_size long, the
\* title prefix not counted, unless it is a single sentence that is itself
\* longer than that.
C20_PassageWithinChunkSize ==
    \A p \in 1..Len(split_chunks.result) :
        \/ Len(split_chunks.result[p])
              <= split_chunks.chunk_size + Len(PrefixOf(split_chunks.impl, split_content))
        \/ SingleSentence(WithoutPrefix(split_chunks.result[p], PrefixOf(split_chunks.impl, split_content)))

\* the text is one heading and nothing else
HeadingAlone(text) ==
    \E a \in 1..Len(HeadingPatterns) :
        /\ MatchAt(HeadingPatterns[a], 1, Strip(text), 1) # NoMatch
        /\ MatchAt(HeadingPatterns[a], 1, Strip(text), 1)
              [Len(MatchAt(HeadingPatterns[a], 1, Strip(text), 1))] = Len(Strip(text)) + 1

\* every heading line of the text is followed by some text
HeadingsHaveText(text) ==
    \A i \in 1..Len(SplitSections(text, 1)) :
        i % 2 = 0 => Strip(SplitSections(text, 1)[i + 1]) # <<>>

\* C21: when every heading of the document is followed by text, no passage
\* returned by the splitter of DocumentProcessor is a heading alone: a heading
\* comes with the text that follows it.
C21_NoHeadingAlone ==
    (split_chunks.impl = "processor" /\ HeadingsHaveText(split_content))
        => \A p \in 1..Len(split_chunks.result) :
              ~HeadingAlone(WithoutPrefix(split_chunks.result[p],
                                          TitlePrefix(split_content)))

\* the passages without their title prefix, one after the other
CoreText(passages, prefix) ==
    JoinLines([p \in 1..Len(passages) |-> WithoutPrefix(passages[p], prefix)])

\* C22: the passages returned by the splitter of DocumentProcessor, title
\* prefixes left out, hold no character more often than the document does
\* (line breaks and spaces apart): no segment is returned twice.
C22_NoSegmentTwice ==
    split_chunks.impl = "processor"
        => \A c \in Sigma \ Whitespace :
              CountOf(CoreText(split_chunks.result, TitlePrefix(split_content)), c)
                 <= CountOf(split_content, c)

\* C23: when a splitter returns two or more passages, each of them has at
\* least min_chunk_length characters.
C23_ShortPassagesDiscarded ==
    Len(split_chunks.result) >= 2
        => \A p \in 1..Len(split_chunks.result) :
              Len(split_chunks.result[p]) >= split_chunks.min_chunk_length

\* C24: for a text of at most chunk_size characters a splitter returns the
\* text alone when it has min_chunk_length characters, and nothing otherwise.
C24_ShortTextReturnedWhole ==
    (split_chunks.impl # "none" /\ Len(split_content) <= split_chunks.chunk_size)
        => split_chunks.result =
              IF Len(split_content) >= split_chunks.min_chunk_length
              THEN <<split_content>> ELSE <<>>

-----------------------------------------------------------------------------
(* Properties of the loop of VectorDatabase._split_document *)

\* the loop, run one iteration at a time, returns what the function returns
LoopComputesSplitDocument ==
    split_chunks.pc = "returned"
        => split_chunks.chunks = SplitDocument(split_content, split_chunks.chunk_size,
                                               split_chunks.chunk_overlap)

\* C25: the next chunk starts at most chunk_size/4 characters before the end
\* of the chunk just taken, whatever chunk_overlap is configured.
C25_OverlapClamped ==
    ( /\ split_chunks.pc = "loop"
      /\ split_chunks.end > 0
      /\ split_chunks.start < Len(split_content) )
        => 4 * (Min2(split_chunks.end, Len(split_content)) - split_chunks.start)
              <= split_chunks.chunk_size

\* C29: a chunk appended after another one ends behind the end of that one:
\* it is not a suffix of it.
C29_ChunkGoesBeyondPrevious ==
    [][( /\ split_chunks.pc = "loop"
         /\ split_chunks.chunks # <<>>
         /\ Len(split_chunks'.chunks) > Len(split_chunks.chunks) )
           => split_chunks'.appended_end > split_chunks.appended_end]_vars

-----------------------------------------------------------------------------
(* Further properties of the database *)

\* C27: a load_from_disk that returns False leaves the index, the passage
\* store, the metadata and is_loaded as they were before the call.
C27_FailedLoadKeepsMemory ==
    [][(last'.op = "load" /\ last'.ret = "False") => UNCHANGED Memory]_vars

-----------------------------------------------------------------------------
(* Properties of the embedding *)

\* the rows of the index are the model's embeddings of the stored passages
GenuineRows == index.rows = EncodeTexts(TextChunks(document_store))

\* C26: after a build that reported success the index holds only genuine
\* embeddings: no random vector was stored as an ordinary row (the code has
\* no debug switch and no flag that could mark a random row)
C26_NoRandomVectorsInBuild ==
    (last.op \in {"build_index", "rebuild"} /\ last.ret = "built") => GenuineRows

-----------------------------------------------------------------------------
(* Properties of the checkpoint *)

\* C28: when run_test has finished, after any interruptions and resumptions,
\* all_results holds the result of every question index of
\* [start_idx, end_idx) exactly once.
C28_EveryQuestionOnce ==
    run.pc = "done" =>
        \A q \in 0..(run.end_idx - 1) : CountOf(run.all_results, q) = 1

====
